---- MODULE Spec2Model ----
(***************************************************************************)
(* Model of the go-ai-service tool-orchestration engine:                   *)
(*   main (startup of the MCP sidecar, handshake, HTTP router),            *)
(*   MCPClient (one shared stdio connection to the sidecar),               *)
(*   ToolExecutor, ChatHandler.HandleChat and its XML directive parser,    *)
(*   ChromaClient.SearchKnowledge and DashScopeClient.Chat.                *)
(*                                                                         *)
(* Texts are sequences of tokens: an opening tag <n>, a closing tag </n>   *)
(* or a run of characters holding no '<'.  The regular expressions of the  *)
(* source are evaluated on these tokens.                                   *)
(***************************************************************************)
EXTENDS Integers, Sequences, FiniteSets, TLC

\* ------------------------------------------------------------------ bounds

\* number of concurrently handled /chat requests (gin runs one goroutine each)
NumHandlers == 2
\* number of lines the sidecar prints on stdout that answer no request
MaxStray == 1
\* longest client-supplied history of the message-assembly specification
MaxHistory == 2
\* most <key>value</key> pairs in the arguments block of a generated directive
MaxPairs == 2

\* ------------------------------------------------------------------ tokens

O(n) == <<"o", n>>
Cl(n) == <<"c", n>>
Ch(c) == <<"t", c>>

FO == O("func_call")
FC == Cl("func_call")
NL == Ch("\n")
SP == Ch(" ")

IsTag(tok) == tok[1] # "t"
IsSpace(tok) == tok \in {SP, NL, Ch("\t"), Ch("\r")}

Min(S) == CHOOSE x \in S : \A y \in S : x <= y
Max(S) == CHOOSE x \in S : \A y \in S : x >= y

TrimSpaceLeftOnly(s) ==
    LET keep == {i \in 1..Len(s) : ~IsSpace(s[i])}
    IN IF keep = {} THEN <<>> ELSE SubSeq(s, Min(keep), Len(s))

\* strings.TrimSpace
TrimSpace(s) ==
    LET keep == {i \in 1..Len(s) : ~IsSpace(s[i])}
    IN IF keep = {} THEN <<>> ELSE SubSeq(s, Min(keep), Max(keep))

\* strings.Contains(s, "<tag>")
Contains(s, tok) == \E i \in 1..Len(s) : s[i] = tok

NoMatch == [ok |-> FALSE, start |-> 0, end |-> 0]

GreedyMatch(s, open, close, dotAll) ==
    LET ends(i) == {j \in (i+1)..Len(s) :
                      /\ s[j] = close
                      /\ (dotAll \/ \A k \in (i+1)..(j-1) : s[k] # NL)}
        starts == {i \in 1..Len(s) : s[i] = open /\ ends(i) # {}}
    IN IF starts = {} THEN NoMatch
       ELSE [ok |-> TRUE, start |-> Min(starts), end |-> Max(ends(Min(starts)))]

\* regexp `<open>(X*?)</close>`, leftmost match, lazy body; X is [\s\S] when
\* dotAll and . (no newline) otherwise
LazyMatch(s, open, close, dotAll) ==
    LET ends(i) == {j \in (i+1)..Len(s) :
                      /\ s[j] = close
                      /\ (dotAll \/ \A k \in (i+1)..(j-1) : s[k] # NL)}
        starts == {i \in 1..Len(s) : s[i] = open /\ ends(i) # {}}
    IN IF starts = {} THEN NoMatch
       ELSE [ok |-> TRUE, start |-> Min(starts), end |-> Min(ends(Min(starts)))]

\* the submatch (group 1) of a LazyMatch
Group1(s, m) == SubSeq(s, m.start + 1, m.end - 1)

ReplaceFirstFuncCall(s) ==
    LET m == LazyMatch(s, FO, FC, TRUE)
    IN IF ~m.ok THEN s
       ELSE SubSeq(s, 1, m.start - 1) \o SubSeq(s, m.end + 1, Len(s))

\* regexp `<func_call>[\s\S]*?</func_call>` ReplaceAllString(s, "")
RECURSIVE ReplaceAllFuncCall(_)
ReplaceAllFuncCall(s) ==
    LET m == LazyMatch(s, FO, FC, TRUE)
    IN IF ~m.ok THEN s
       ELSE SubSeq(s, 1, m.start - 1) \o ReplaceAllFuncCall(SubSeq(s, m.end + 1, Len(s)))

\* ------------------------------------------------------------------ strconv.Atoi

Digits == {"0", "1", "2", "3", "4", "5", "6", "7", "8", "9"}

DigitVal(c) ==
    CASE c = "0" -> 0 [] c = "1" -> 1 [] c = "2" -> 2 [] c = "3" -> 3 [] c = "4" -> 4
      [] c = "5" -> 5 [] c = "6" -> 6 [] c = "7" -> 7 [] c = "8" -> 8 [] c = "9" -> 9

\* the decimal text of an integer
RECURSIVE Itoa(_)
Itoa(n) ==
    IF n < 0 THEN <<Ch("-")>> \o Itoa(0 - n)
    ELSE IF n < 10 THEN <<Ch(CHOOSE c \in Digits : DigitVal(c) = n)>>
    ELSE Itoa(n \div 10) \o <<Ch(CHOOSE c \in Digits : DigitVal(c) = n % 10)>>

\* the digits of the largest int of the platform (64 bits), 1<<63 - 1
MaxIntDigits ==
    <<"9", "2", "2", "3", "3", "7", "2", "0", "3", "6", "8", "5", "4", "7", "7", "5", "8", "0", "7">>
\* the digits of the magnitude of the smallest int, 1<<63
MinIntDigits == [MaxIntDigits EXCEPT ![Len(MaxIntDigits)] = "8"]

RECURSIVE StripZeros(_)
StripZeros(ds) ==
    IF Len(ds) > 1 /\ ds[1] = Ch("0") THEN StripZeros(Tail(ds)) ELSE ds

\* ds <= limit, for a digit text and a digit sequence of one length
RECURSIVE DigitsLeq(_, _)
DigitsLeq(ds, limit) ==
    IF ds = <<>> THEN TRUE
    ELSE IF DigitVal(ds[1][2]) < DigitVal(limit[1]) THEN TRUE
    ELSE IF DigitVal(ds[1][2]) > DigitVal(limit[1]) THEN FALSE
    ELSE DigitsLeq(Tail(ds), Tail(limit))

\* strconv.ParseInt's range error: the magnitude exceeds the int range
InIntRange(ds, neg) ==
    LET c == StripZeros(ds)
    IN \/ Len(c) < Len(MaxIntDigits)
       \/ /\ Len(c) = Len(MaxIntDigits)
          /\ DigitsLeq(c, IF neg THEN MinIntDigits ELSE MaxIntDigits)

\* an int is held as its decimal numeral, the text strconv.Itoa prints: a
\* "-" for a negative value, then the digits without leading zeros
Numeral(neg, ds) ==
    LET c == StripZeros(ds)
    IN IF neg /\ c # <<Ch("0")>> THEN <<Ch("-")>> \o c ELSE c

\* strconv.Atoi on a text of one-character tokens: optional sign, then digits
Atoi(v) ==
    LET signed == v # <<>> /\ v[1] \in {Ch("+"), Ch("-")}
        ds == IF signed THEN Tail(v) ELSE v
        good == /\ ds # <<>>
                /\ \A i \in 1..Len(ds) : ~IsTag(ds[i]) /\ ds[i][2] \in Digits
                /\ InIntRange(ds, signed /\ v[1] = Ch("-"))
    IN IF ~good THEN [ok |-> FALSE, val |-> Itoa(0)]
       ELSE [ok |-> TRUE, val |-> Numeral(signed /\ v[1] = Ch("-"), ds)]

\* ------------------------------------------------------------------ parseToolCallFromXML

StrVal(v) == [t |-> "string", v |-> v]
IntVal(n) == [t |-> "int", v |-> n]

EmptyArgs == [k \in {} |-> StrVal(<<>>)]

\* the keys whose value is never converted to a number
TextKeys == {"customerPhone", "orderId"}

TypedValueCoerceAll(key, value) ==
    IF Atoi(value).ok THEN IntVal(Atoi(value).val) ELSE StrVal(value)

\* the value stored for one matching tag pair
TypedValue(key, value) ==
    IF key \in TextKeys THEN StrVal(value)
    ELSE IF Atoi(value).ok THEN IntVal(Atoi(value).val) ELSE StrVal(value)

\* index of the first tag token after position i, 0 when there is none
NextTag(s, i) ==
    LET tags == {j \in (i+1)..Len(s) : IsTag(s[j])}
    IN IF tags = {} THEN 0 ELSE Min(tags)

\* regexp `<(\w+)>([^<]*)</(\w+)>` matches at i
TagMatchAt(s, i) ==
    /\ s[i][1] = "o"
    /\ NextTag(s, i) # 0
    /\ s[NextTag(s, i)][1] = "c"

RECURSIVE ScanTagsFirstWins(_, _, _)
ScanTagsFirstWins(s, pos, args) ==
    LET starts == {i \in pos..Len(s) : TagMatchAt(s, i)}
    IN IF starts = {} THEN args
       ELSE LET i == Min(starts)
                j == NextTag(s, i)
                openTag == s[i][2]
                closeTag == s[j][2]
                value == TrimSpace(SubSeq(s, i + 1, j - 1))
            IN ScanTagsFirstWins(s, j + 1,
                                 IF openTag # closeTag THEN args
                                 ELSE args @@ (openTag :> TypedValue(openTag, value)))

RECURSIVE ScanTagsAnyClose(_, _, _)
ScanTagsAnyClose(s, pos, args) ==
    LET starts == {i \in pos..Len(s) : TagMatchAt(s, i)}
    IN IF starts = {} THEN args
       ELSE LET i == Min(starts)
                j == NextTag(s, i)
                openTag == s[i][2]
                value == TrimSpace(SubSeq(s, i + 1, j - 1))
            IN ScanTagsAnyClose(s, j + 1, (openTag :> TypedValue(openTag, value)) @@ args)

\* FindAllStringSubmatch of the tag pattern from pos on, folded into the map
RECURSIVE ScanTags(_, _, _)
ScanTags(s, pos, args) ==
    LET starts == {i \in pos..Len(s) : TagMatchAt(s, i)}
    IN IF starts = {} THEN args
       ELSE LET i == Min(starts)
                j == NextTag(s, i)
                openTag == s[i][2]
                closeTag == s[j][2]
                value == TrimSpace(SubSeq(s, i + 1, j - 1))
            IN ScanTags(s, j + 1,
                        IF openTag # closeTag THEN args
                        ELSE (openTag :> TypedValue(openTag, value)) @@ args)

NoToolCall == [found |-> FALSE, ToolName |-> <<>>, Arguments |-> EmptyArgs]

parseToolCallNameOnly(response) ==
    IF ~Contains(response, FO) THEN NoToolCall
    ELSE LET fm == LazyMatch(response, FO, FC, TRUE)
         IN IF ~fm.ok THEN NoToolCall
            ELSE LET funcCallContent == Group1(response, fm)
                     nm == LazyMatch(funcCallContent, O("tool_name"), Cl("tool_name"), FALSE)
                 IN IF ~nm.ok THEN NoToolCall
                    ELSE [found |-> TRUE,
                          ToolName |-> TrimSpace(Group1(funcCallContent, nm)),
                          Arguments |-> EmptyArgs]

parseToolCallFromXML(response) ==
    IF ~Contains(response, FO) THEN NoToolCall
    ELSE LET fm == LazyMatch(response, FO, FC, TRUE)
         IN IF ~fm.ok THEN NoToolCall
            ELSE LET funcCallContent == Group1(response, fm)
                     nm == LazyMatch(funcCallContent, O("tool_name"), Cl("tool_name"), FALSE)
                     am == LazyMatch(funcCallContent, O("arguments"), Cl("arguments"), TRUE)
                 IN IF ~nm.ok THEN NoToolCall
                    ELSE IF ~am.ok THEN NoToolCall
                    ELSE [found |-> TRUE,
                          ToolName |-> TrimSpace(Group1(funcCallContent, nm)),
                          Arguments |-> ScanTags(Group1(funcCallContent, am), 1, EmptyArgs)]

\* the cleanup of buildFinalReply: every block removed, then TrimSpace
CleanResponse(llmResponse) == TrimSpace(ReplaceAllFuncCall(llmResponse))

buildFinalReplyAlwaysJoined(llmResponse, toolResult) ==
    TrimSpace(ReplaceAllFuncCall(llmResponse)) \o <<NL, NL>> \o toolResult

\* fmt.Sprintf("%s\n\n%s", cleanResponse, toolResult) after the cleanup
buildFinalReply(llmResponse, toolResult) ==
    LET cleanResponse == TrimSpace(ReplaceAllFuncCall(llmResponse))
    IN IF cleanResponse = <<>> THEN toolResult
       ELSE cleanResponse \o <<NL, NL>> \o toolResult

\* ------------------------------------------------------------------ encoding/json

\* a natural number in four limbs of 20 bits, lowest first
LimbBase == 2^20
Limbs(a, b, c, d) == <<a % LimbBase, b % LimbBase, c % LimbBase, d % LimbBase>>
ZeroLimbs == <<0, 0, 0, 0>>

\* x * m + d for small m and d
MulAdd(x, m, d) ==
    LET t1 == x[1] * m + d
        t2 == x[2] * m + t1 \div LimbBase
        t3 == x[3] * m + t2 \div LimbBase
        t4 == x[4] * m + t3 \div LimbBase
    IN Limbs(t1, t2, t3, t4)

\* quotient and remainder of x by a small m
DivMod(x, m) ==
    LET q4 == x[4] \div m
        t3 == (x[4] % m) * LimbBase + x[3]
        t2 == (t3 % m) * LimbBase + x[2]
        t1 == (t2 % m) * LimbBase + x[1]
    IN [q |-> <<t1 \div m, t2 \div m, t3 \div m, q4>>, r |-> t1 % m]

\* the number written by a text of digits
RECURSIVE FromDigits(_)
FromDigits(ds) ==
    IF ds = <<>> THEN ZeroLimbs
    ELSE MulAdd(FromDigits(SubSeq(ds, 1, Len(ds) - 1)), 10, DigitVal(ds[Len(ds)][2]))

\* the digits of a number, none for zero
RECURSIVE ToDigits(_)
ToDigits(x) ==
    IF x = ZeroLimbs THEN <<>>
    ELSE ToDigits(DivMod(x, 10).q) \o Itoa(DivMod(x, 10).r)

\* the number of bits of x
RECURSIVE BitLen(_)
BitLen(x) == IF x = ZeroLimbs THEN 0 ELSE 1 + BitLen(DivMod(x, 2).q)

\* x shifted right by s bits, with the last bit shifted out and whether any
\* bit below it was set
RECURSIVE ShiftRight(_, _)
ShiftRight(x, s) ==
    IF s = 0 THEN [q |-> x, half |-> FALSE, sticky |-> FALSE]
    ELSE LET prev == ShiftRight(x, s - 1)
         IN [q |-> DivMod(prev.q, 2).q,
             half |-> DivMod(prev.q, 2).r = 1,
             sticky |-> prev.half \/ prev.sticky]

RECURSIVE ShiftLeft(_, _)
ShiftLeft(x, s) == IF s = 0 THEN x ELSE ShiftLeft(MulAdd(x, 2, 0), s - 1)

\* the float64 nearest to the natural number x: 53 bits of mantissa, ties to
\* the even mantissa
RoundToFloat64(x) ==
    LET s == BitLen(x) - 53
    IN IF s <= 0 THEN x
       ELSE LET sh == ShiftRight(x, s)
                up == sh.half /\ (sh.sticky \/ DivMod(sh.q, 2).r = 1)
            IN ShiftLeft(IF up THEN MulAdd(sh.q, 1, 1) ELSE sh.q, s)

\* the magnitude and the sign of a numeral
Magnitude(n) == IF n[1] = Ch("-") THEN Tail(n) ELSE n
Negative(n) == n[1] = Ch("-")

\* json.Unmarshal of a JSON integer into interface{}: the nearest float64,
\* held as the numeral of its exact value
Float64(n) ==
    LET x == RoundToFloat64(FromDigits(Magnitude(n)))
    IN Numeral(Negative(n), IF x = ZeroLimbs THEN Itoa(0) ELSE ToDigits(x))

Zeros(k) == [i \in 1..k |-> Ch("0")]

\* the first k digits of ds, or that number plus one, filled up with zeros
\* to the length of ds
DownTo(ds, k) == SubSeq(ds, 1, k) \o Zeros(Len(ds) - k)
UpTo(ds, k) ==
    ToDigits(MulAdd(FromDigits(SubSeq(ds, 1, k)), 1, 1)) \o Zeros(Len(ds) - k)

\* strconv.AppendFloat(b, f, 'f', -1, 64) for an integral f below 1e21, as
\* json.Marshal writes a float64: the fewest digits that read back as f, the
\* nearer choice first, then zeros
RECURSIVE ShortestFrom(_, _)
ShortestFrom(ds, k) ==
    IF k >= Len(ds) THEN ds
    ELSE LET down == DownTo(ds, k)
             up == UpTo(ds, k)
             first == IF DigitVal(ds[k + 1][2]) >= 5 THEN up ELSE down
             second == IF DigitVal(ds[k + 1][2]) >= 5 THEN down ELSE up
         IN IF Float64(first) = ds THEN first
            ELSE IF Float64(second) = ds THEN second
            ELSE ShortestFrom(ds, k + 1)

FormatFloat(f) == Numeral(Negative(f), ShortestFrom(Magnitude(f), 1))

\* json.Marshal of one argument value: a JSON string or a JSON number
MarshalValue(g) ==
    IF g.t = "string" THEN [t |-> "str", v |-> g.v]
    ELSE IF g.t = "float64" THEN [t |-> "num", v |-> FormatFloat(g.v)]
    ELSE [t |-> "num", v |-> g.v]

\* json.Unmarshal into interface{}: a JSON number becomes a float64
UnmarshalValue(j) ==
    IF j.t = "str" THEN StrVal(j.v) ELSE [t |-> "float64", v |-> Float64(j.v)]

MarshalArgs(m) == [k \in DOMAIN m |-> MarshalValue(m[k])]
UnmarshalArgs(js) == [k \in DOMAIN js |-> UnmarshalValue(js[k])]

\* ------------------------------------------------------------------ MCP envelopes

NoError == [present |-> FALSE, code |-> 0, message |-> <<>>]
NoResult == [present |-> FALSE, content |-> <<>>]

\* MCPResponse as decoded from one stdout line; valid = the line is JSON of
\* the envelope's shape
RespLine(id, err, res) == [valid |-> TRUE, id |-> id, error |-> err, result |-> res]
GarbageLine == [valid |-> FALSE, id |-> 0, error |-> NoError, result |-> NoResult]
\* a JSON-RPC notification: no id, no result, no error
NotificationLine == RespLine(0, NoError, NoResult)
\* the zero value of MCPResponse
ZeroResp == RespLine(0, NoError, NoResult)

PeerError == [present |-> TRUE, code |-> 0 - 32000, message |-> <<Ch("out of stock")>>]
ToolResult(blocks) == [present |-> TRUE, content |-> blocks]

Block1 == <<Ch("order ok")>>
Block2 == <<Ch("more")>>

MCPRequest(id, method, name, arguments) ==
    [id |-> id, method |-> method, name |-> name, arguments |-> arguments]
NoRequest == MCPRequest(0, "", <<>>, EmptyArgs)

NoErr == <<>>
Errorf(prefix, detail) == <<Ch(prefix)>> \o detail

\* what the sidecar may answer to one request
Answers(req) ==
    IF req.method = "tools/call"
    THEN {RespLine(req.id, NoError, ToolResult(<<Block1>>)),
          RespLine(req.id, NoError, ToolResult(<<Block1, Block2>>)),
          RespLine(req.id, NoError, ToolResult(<<>>)),
          RespLine(req.id, PeerError, NoResult),
          GarbageLine}
    ELSE {RespLine(req.id, NoError, ToolResult(<<>>)),
          RespLine(req.id, PeerError, NoResult),
          GarbageLine}

\* json.Unmarshal(respLine, resp) in sendRequest
DecodeFails(line) == ~line.valid

CallToolResultLastBlock(err, resp) ==
    IF err # NoErr THEN [ok |-> FALSE, text |-> <<>>, err |-> err]
    ELSE IF resp.error.present
    THEN [ok |-> FALSE, text |-> <<>>, err |-> Errorf("tool call failed: ", resp.error.message)]
    ELSE IF ~resp.result.present
    THEN [ok |-> FALSE, text |-> <<>>, err |-> Errorf("parse tool result failed: ", <<Ch("unexpected end of JSON input")>>)]
    ELSE IF Len(resp.result.content) > 0
    THEN [ok |-> TRUE, text |-> resp.result.content[Len(resp.result.content)], err |-> NoErr]
    ELSE [ok |-> FALSE, text |-> <<>>, err |-> Errorf("tool returned empty result", <<>>)]

\* CallTool after sendRequest returned (err, resp)
CallToolResult(err, resp) ==
    IF err # NoErr THEN [ok |-> FALSE, text |-> <<>>, err |-> err]
    ELSE IF resp.error.present
    THEN [ok |-> FALSE, text |-> <<>>, err |-> Errorf("tool call failed: ", resp.error.message)]
    ELSE IF ~resp.result.present
    THEN [ok |-> FALSE, text |-> <<>>, err |-> Errorf("parse tool result failed: ", <<Ch("unexpected end of JSON input")>>)]
    ELSE IF Len(resp.result.content) > 0
    THEN [ok |-> TRUE, text |-> resp.result.content[1], err |-> NoErr]
    ELSE [ok |-> FALSE, text |-> <<>>, err |-> Errorf("tool returned empty result", <<>>)]

\* ToolExecutor.Execute wraps CallTool's error
ExecuteResult(r) ==
    IF r.ok THEN r ELSE [r EXCEPT !.err = Errorf("tool call failed: ", r.err)]

InitializeFailsOnSendOnly(err, resp) == err # NoErr

\* initialize after sendRequest returned (err, resp): does it report an error
InitializeFails(err, resp) == err # NoErr \/ resp.error.present

\* ------------------------------------------------------------------ rag.ChromaClient

NoMeta == [category |-> ""]
Doc(id, text, meta, dist) == [ID |-> id, Text |-> text, Metadata |-> meta, Distance |-> dist]

\* the decoded body of a successful query: parallel arrays, one inner array
\* per query embedding
ChromaResult(ids, documents, metadatas, distances) ==
    [IDs |-> ids, Documents |-> documents, Metadatas |-> metadatas, Distances |-> distances]

Doc1Text == <<Ch("returns within 7 days")>>
Meta1 == [category |-> "aftersale"]

ChromaResults ==
    {ChromaResult(<<>>, <<>>, <<>>, <<>>),
     ChromaResult(<<<<"id1">>>>, <<<<Doc1Text>>>>, <<<<Meta1>>>>, <<<<1>>>>),
     ChromaResult(<<<<"id1">>>>, <<<<Doc1Text>>>>, <<>>, <<>>),
     ChromaResult(<<<<>>>>, <<<<Doc1Text>>>>, <<<<Meta1>>>>, <<<<1>>>>)}

\* queryChroma's loop over result.Documents[0]; result.IDs[0][i] is read
\* without a length check and faults when it is missing
queryChromaFaults(r) ==
    /\ Len(r.Documents) > 0
    /\ Len(r.Documents[1]) > 0
    /\ (Len(r.IDs) = 0 \/ Len(r.IDs[1]) < Len(r.Documents[1]))

queryChroma(r) ==
    IF Len(r.Documents) > 0 /\ Len(r.Documents[1]) > 0
    THEN [i \in 1..Len(r.Documents[1]) |->
            Doc(r.IDs[1][i], r.Documents[1][i],
                IF Len(r.Metadatas) > 0 /\ Len(r.Metadatas[1]) >= i
                THEN r.Metadatas[1][i] ELSE NoMeta,
                IF Len(r.Distances) > 0 /\ Len(r.Distances[1]) >= i
                THEN r.Distances[1][i] ELSE 0)]
    ELSE <<>>

IndexStr(i) == CASE i = 1 -> "1" [] i = 2 -> "2" [] i = 3 -> "3" [] OTHER -> "n"

RECURSIVE FormatDocs(_, _)
FormatDocs(documents, i) ==
    IF i > Len(documents) THEN <<>>
    ELSE <<Ch(IndexStr(i)), Ch(". ")>> \o documents[i].Text \o <<NL>>
         \o (IF documents[i].Metadata.category # ""
             THEN <<Ch("   category: "), Ch(documents[i].Metadata.category), NL>>
             ELSE <<>>)
         \o FormatDocs(documents, i + 1)

FormatContext(documents) ==
    IF Len(documents) = 0 THEN <<>>
    ELSE <<Ch("knowledge base:"), NL, NL>> \o FormatDocs(documents, 1)

\* ------------------------------------------------------------------ message assembly

Message(role, content) == [Role |-> role, Content |-> content]

SystemPrompt == <<Ch("system prompt")>>

KeepHistoryByContent(h, message) == h.Content # message

\* the history loop of HandleChat: an echo of the current message is skipped
KeepHistory(h, message) == ~(h.Content = message /\ h.Role = "user")

AssembleMessagesContextLast(knowledgeDocs, history, message) ==
    <<Message("system", SystemPrompt)>>
    \o SelectSeq(history, LAMBDA h : KeepHistory(h, message))
    \o (IF Len(knowledgeDocs) > 0
        THEN <<Message("system", FormatContext(knowledgeDocs))>> ELSE <<>>)
    \o <<Message("user", message)>>

\* steps 2 of HandleChat: the message list handed to the completion client
AssembleMessages(knowledgeDocs, history, message) ==
    <<Message("system", SystemPrompt)>>
    \o (IF Len(knowledgeDocs) > 0
        THEN <<Message("system", FormatContext(knowledgeDocs))>> ELSE <<>>)
    \o SelectSeq(history, LAMBDA h : KeepHistory(h, message))
    \o <<Message("user", message)>>

Msg1 == <<Ch("do you have bikes?")>>

ChatRequest(message, history) == [Message |-> message, History |-> history]

Requests ==
    {ChatRequest(Msg1, <<Message("assistant", <<Ch("hello")>>), Message("user", Msg1)>>)}

Msg2 == <<Ch("hello")>>

\* HistoryMessage.Role is any string the client sends
HistoryEntries ==
    {Message(r, c) : r \in {"system", "user", "assistant", "tool"}, c \in {Msg1, Msg2}}

SeqsUpTo(S, n) == UNION {[1..k -> S] : k \in 0..n}

\* the request bodies of the message-assembly specification
AssembleRequests == {ChatRequest(Msg1, h) : h \in SeqsUpTo(HistoryEntries, MaxHistory)}

\* ------------------------------------------------------------------ llm.DashScopeClient

\* what the completion endpoint answered: transport ok, HTTP status, body
\* decodes, code and output.text
Upstream(sent, status, json, code, text) ==
    [sent |-> sent, status |-> status, json |-> json, code |-> code, text |-> text]
NoUpstream == Upstream(FALSE, 0, FALSE, "", <<>>)

ChatFailsIgnoringCode(u) == ~u.sent \/ u.status # 200 \/ ~u.json

\* DashScopeClient.Chat returns an error
ChatFails(u) ==
    \/ ~u.sent
    \/ u.status # 200
    \/ ~u.json
    \/ (u.code # "" /\ u.code # "Success")

TN(name) == <<O("tool_name"), Ch(name), Cl("tool_name")>>
Arg(k, v) == <<O(k)>> \o v \o <<Cl(k)>>
Directive(name, args) ==
    <<FO, NL>> \o TN(name) \o <<NL, O("arguments"), NL>> \o args \o <<NL, Cl("arguments"), NL, FC>>

TextPlain == <<SP, Ch("we have bikes"), NL>>
TextTwo ==
    <<Ch("let me order"), NL>>
    \o Directive("create_order", Arg("quantity", <<Ch("2")>>) \o <<NL>>
                                 \o Arg("customerPhone", <<Ch("1"), Ch("3"), Ch("8")>>))
    \o <<NL, Ch("then"), NL>>
    \o Directive("cancel_order", Arg("orderNumber", <<Ch("ORD-1")>>))
    \o <<SP>>
TextOnly == <<SP>> \o Directive("search_product", Arg("keyword", <<Ch("bike")>>)) \o <<NL>>
TextUnclosed == <<Ch("hm"), FO>> \o TN("create_order") \o <<O("arguments"), Cl("arguments")>>
TextNoArgs == <<FO>> \o TN("create_order") \o <<FC, Ch("done")>>

Texts == {TextPlain, TextTwo, TextOnly, TextUnclosed, TextNoArgs}

Upstreams ==
    {Upstream(TRUE, 200, TRUE, "", t) : t \in Texts}
    \cup {Upstream(FALSE, 0, FALSE, "", <<>>),
          Upstream(TRUE, 500, TRUE, "", TextOnly),
          Upstream(TRUE, 200, FALSE, "", <<>>),
          Upstream(TRUE, 200, TRUE, "Throttling", TextOnly),
          Upstream(TRUE, 200, TRUE, "Success", TextPlain)}

\* ------------------------------------------------------------------ generated completion texts

\* a text of one-character tokens
D(cs) == [i \in 1..Len(cs) |-> Ch(cs[i])]

\* one <key>value</key> pair as the model writes it: the key, the text
\* between the tags, that text without its surrounding whitespace, whether
\* this is a decimal integer of the int range, and then its value
Pair(key, raw, trimmed, isInt, val) ==
    [key |-> key, raw |-> raw, trimmed |-> trimmed, isInt |-> isInt, val |-> Itoa(val)]

\* 2^53 + 1, an int that no float64 holds
LargeDigits ==
    <<"9", "0", "0", "7", "1", "9", "9", "2", "5", "4", "7", "4", "0", "9", "9", "3">>

PairPool ==
    {Pair("quantity", D(<<"2">>), D(<<"2">>), TRUE, 2),
     Pair("quantity", <<SP>> \o D(<<"7">>) \o <<SP, NL>>, D(<<"7">>), TRUE, 7),
     Pair("quantity", D(<<"-", "3">>), D(<<"-", "3">>), TRUE, 0 - 3),
     Pair("customerPhone", D(<<"1", "3", "8">>), D(<<"1", "3", "8">>), TRUE, 138),
     Pair("orderId", D(<<"4", "2">>), D(<<"4", "2">>), TRUE, 42),
     Pair("orderNumber", D(<<"1", "2", "3", "4", "5">>), D(<<"1", "2", "3", "4", "5">>),
          TRUE, 12345),
     Pair("orderNumber", <<Ch("ORD-1")>>, <<Ch("ORD-1")>>, FALSE, 0),
     Pair("keyword", <<SP, Ch("bike")>>, <<Ch("bike")>>, FALSE, 0),
     Pair("productId", D(MinIntDigits), D(MinIntDigits), FALSE, 0),
     Pair("count", D(<<"0", "0", "7">>), D(<<"0", "0", "7">>), TRUE, 7),
     Pair("size", D(<<"2", "x">>), D(<<"2", "x">>), FALSE, 0),
     Pair("note", <<>>, <<>>, FALSE, 0),
     [Pair("productId", D(LargeDigits), D(LargeDigits), TRUE, 0) EXCEPT !.val = D(LargeDigits)]}

RECURSIVE PairsBody(_)
PairsBody(pairs) ==
    IF pairs = <<>> THEN <<>>
    ELSE Arg(Head(pairs).key, Head(pairs).raw) \o <<NL>> \o PairsBody(Tail(pairs))

\* a directive block in the layout of the system prompt's examples
Block(nameField, body) ==
    <<FO, NL, O("tool_name")>> \o nameField \o <<Cl("tool_name"), NL, O("arguments"), NL>>
    \o body \o <<Cl("arguments"), NL, FC>>

ToolName1 == <<Ch("create_order")>>

\* a generated completion text with what it was built from: the kind of
\* its directive, the tool name and the pairs of its well-formed block
ParseCase(kind, text, name, pairs) ==
    [kind |-> kind, text |-> text, name |-> name, pairs |-> pairs]

Pair1 == Pair("quantity", D(<<"2">>), D(<<"2">>), TRUE, 2)

\* texts holding a well-formed block: outer markers, a tool-name field and
\* an arguments block of flat pairs
WellFormedCases ==
    {ParseCase("wellformed", <<Ch("ok"), NL>> \o Block(ToolName1, PairsBody(l)) \o <<NL>>,
               ToolName1, l) : l \in SeqsUpTo(PairPool, MaxPairs)}
    \cup {ParseCase("wellformed", Block(pad \o ToolName1 \o pad, PairsBody(<<Pair1>>)),
                    ToolName1, <<Pair1>>) : pad \in {<<SP>>, <<NL>>}}
    \cup {ParseCase("wellformed", Block(n, PairsBody(<<Pair1>>)), <<>>, <<Pair1>>) :
             n \in {<<>>, <<SP>>}}
    \cup {ParseCase("wellformed",
                    <<FO>> \o TN("cancel_order") \o <<FC, NL>>
                    \o Block(ToolName1, PairsBody(<<Pair1>>)),
                    ToolName1, <<Pair1>>)}

\* texts whose directive is partial: no closing marker, no tool-name field,
\* no arguments block
MalformedCases ==
    {ParseCase("unclosed", <<Ch("hm"), FO, NL>> \o TN("create_order")
                           \o <<O("arguments")>> \o PairsBody(<<Pair1>>) \o <<Cl("arguments")>>,
               <<>>, <<>>),
     ParseCase("unclosed", <<FC, SP, FO>> \o TN("create_order"), <<>>, <<>>),
     ParseCase("noname", <<FO, O("arguments")>> \o PairsBody(<<Pair1>>)
                         \o <<Cl("arguments"), FC>>, <<>>, <<>>),
     ParseCase("noname", <<FO, O("tool_name"), Ch("create_order"), O("arguments")>>
                         \o PairsBody(<<Pair1>>) \o <<Cl("arguments"), FC, NL>>, <<>>, <<>>),
     ParseCase("noargs", <<FO>> \o TN("create_order") \o <<FC, Ch("done")>>, <<>>, <<>>),
     ParseCase("noargs", <<SP, FO>> \o TN("create_order") \o <<O("arguments")>>
                         \o PairsBody(<<Pair1>>) \o <<FC>>, <<>>, <<>>)}

PairK == Pair("keyword", <<SP, Ch("bike")>>, <<Ch("bike")>>, FALSE, 0)

\* texts without the opening marker
PlainCases ==
    {ParseCase("plain", t, <<>>, <<>>) :
        t \in {TextPlain,
               <<>>,
               <<SP, NL>>,
               <<NL, Ch("a"), FC, SP>>,
               <<SP>> \o TN("create_order") \o <<O("arguments")>> \o PairsBody(<<Pair1>>)
                  \o <<Cl("arguments"), NL>>}}

\* blocks whose arguments hold a pair of unequal tag names or an opening
\* tag without its closing tag, next to the well-formed pairs listed
MismatchCases ==
    {ParseCase("mismatch", Block(ToolName1, <<O("quantity"), Ch("2"), Cl("count")>>),
               ToolName1, <<>>),
     ParseCase("mismatch", Block(ToolName1, <<O("quantity"), Ch("2"), Cl("count"), NL>>
                                            \o PairsBody(<<PairK>>)),
               ToolName1, <<PairK>>),
     ParseCase("mismatch", Block(ToolName1, PairsBody(<<PairK>>)
                                            \o <<O("quantity"), Ch("2"), Cl("count")>>),
               ToolName1, <<PairK>>),
     ParseCase("mismatch", Block(ToolName1, <<O("quantity"), Ch("9"), Cl("count"), NL>>
                                            \o PairsBody(<<Pair1>>)),
               ToolName1, <<Pair1>>),
     ParseCase("mismatch", Block(ToolName1, <<O("size"), Ch("5")>> \o PairsBody(<<Pair1>>)),
               ToolName1, <<Pair1>>)}

Block1Text == Block(ToolName1, PairsBody(<<Pair1>>))

\* texts with more markers than those of the one executed block
SeveralCases ==
    {ParseCase("several", t, ToolName1, <<Pair1>>) :
        t \in {<<Ch("a"), NL>> \o Block1Text \o <<NL, Ch("b"), NL>>
                  \o Block(<<Ch("cancel_order")>>, PairsBody(<<PairK>>)) \o <<SP>>,
               Block1Text \o Block1Text,
               Block1Text \o <<NL, FO, Ch("tail")>>,
               <<FC, Ch("x")>> \o Block1Text,
               <<FO, Ch("junk"), NL>> \o Block1Text \o <<NL, Ch("end")>>}}

OtherCases == PlainCases \cup MismatchCases \cup SeveralCases

ParseCases == WellFormedCases \cup MalformedCases \cup OtherCases

NoCase == ParseCase("", <<>>, <<>>, <<>>)

\* successful completions carrying the generated texts
ParseUpstreams ==
    {[sent |-> TRUE, status |-> 200, json |-> TRUE, code |-> "", text |-> c.text, case |-> c] :
        c \in ParseCases}

\* ------------------------------------------------------------------ HTTP responses

HTTPResponse(status, field, text) == [status |-> status, field |-> field, text |-> text]
NoResponse == HTTPResponse(0, "", <<>>)

StatusOK == 200
StatusBadRequest == 400
StatusInternalServerError == 500

BadRequestMessage == <<Ch("invalid request")>>
GenericErrorMessage == <<Ch("processing failed, please retry later")>>
FailurePrefix == "sorry, order processing failed: "

PlainReplyAsError(responseText) ==
    HTTPResponse(StatusInternalServerError, "error", GenericErrorMessage)

PlainReplyTrimmed(responseText) == HTTPResponse(StatusOK, "reply", TrimSpace(responseText))

\* step 5 of HandleChat: no tool call, the completion text is the reply
PlainReply(responseText) == HTTPResponse(StatusOK, "reply", responseText)

ToolFailureReplyAs500(err) ==
    HTTPResponse(StatusInternalServerError, "error", Errorf(FailurePrefix, err))

\* the branch of HandleChat taken when Execute returned an error
ToolFailureReply(err) == HTTPResponse(StatusOK, "reply", Errorf(FailurePrefix, err))

\* the branch of HandleChat taken when Execute returned a result
ToolSuccessReply(responseText, result) ==
    HTTPResponse(StatusOK, "reply", buildFinalReply(responseText, result))

\* the branch of HandleChat taken when Chat returned an error
CompletionFailureReply == HTTPResponse(StatusInternalServerError, "error", GenericErrorMessage)

\* ------------------------------------------------------------------ state

Main == 0
Handlers == 1..NumHandlers
Procs == {Main} \cup Handlers
NoProc == 0 - 1

VARIABLES
    pc,              \* where each goroutine stands: main and the request handlers
    cmd,             \* the sidecar process: "none", "running", "exited"
    stdinOpen,       \* the client's end of the sidecar's stdin is open
    stdinQ,          \* request lines written and not yet consumed by the sidecar
    stdoutQ,         \* lines printed by the sidecar and not yet read
    stray,           \* number of stray lines the sidecar has printed
    mu,              \* MCPClient.mu: the holder, NoProc when free
    msgID,           \* MCPClient.msgID
    globalMCPClient, \* the package variable is set
    collectionID,    \* ChromaClient.collectionID
    call,            \* per goroutine: the locals of CallTool/ListTools/initialize
    turn,            \* per handler: the locals of HandleChat
    wire,            \* history: the writes and reads on the connection, in order
    handshake        \* history: what initialize got back

VARIABLES
    loop,            \* the activation of chatWithToolCalling
    stock,           \* shop: Product.stock of every product
    orders,          \* shop: the rows of the orders table, oldest first
    last,            \* shop: the last service operation and its outcome
    ops              \* shop: number of service operations so far

gatewayVars == <<pc, cmd, stdinOpen, stdinQ, stdoutQ, stray, mu, msgID, globalMCPClient,
                 collectionID, call, turn, wire, handshake>>

shopVars == <<stock, orders, last, ops>>

vars == <<gatewayVars, loop, shopVars>>

NoCall == [method |-> "", name |-> <<>>, arguments |-> EmptyArgs, tmp |-> 0,
           req |-> NoRequest, resp |-> ZeroResp, err |-> NoErr]

NoExec == [ok |-> FALSE, text |-> <<>>, err |-> NoErr]

NoTurn == [req |-> ChatRequest(<<>>, <<>>), knowledgeDocs |-> <<>>, ragErr |-> NoErr,
           messages |-> <<>>, chatCalls |-> 0, up |-> NoUpstream, toolCall |-> NoToolCall,
           exec |-> NoExec, resp |-> NoResponse]

NoHandshake == [done |-> FALSE, err |-> NoErr, line |-> ZeroResp]

\* ------------------------------------------------------------------ chatWithToolCalling: data

maxIterations == 5

\* llm.ChatResponse as chatWithToolCalling sees it, with the error of Chat
Choice(finishReason, content, toolCalls) ==
    [FinishReason |-> finishReason, Content |-> content, ToolCalls |-> toolCalls]
LoopResponse(err, text, choices) == [err |-> err, Text |-> text, Choices |-> choices]

\* strings.Contains(finishReason, "tool_calls"), the reason being a list of words
ContainsToolCalls(finishReason) ==
    \E k \in 1..Len(finishReason) : finishReason[k] = "tool_calls"

\* DashScopeClient.ShouldCallTool
ShouldCallTool(resp) ==
    /\ resp.Text = <<>>
    /\ resp.Choices # <<>>
    /\ ContainsToolCalls(resp.Choices[1].FinishReason)

\* DashScopeClient.GetToolCalls
GetToolCalls(resp) ==
    IF resp.Text # <<>> \/ resp.Choices = <<>> THEN <<>> ELSE resp.Choices[1].ToolCalls

\* DashScopeClient.GetTextResponse
GetTextResponse(resp) ==
    IF resp.Text # <<>> THEN resp.Text
    ELSE IF resp.Choices = <<>> THEN <<>>
    ELSE resp.Choices[1].Content

FallbackMessage == <<Ch("sorry, there was a problem processing your request")>>
ChatError == Errorf("API returned error status 500: ", <<Ch("busy")>>)

ToolCallA == "search_products"
ToolCallB == "create_order"

\* what the completion client may hand to the loop in one round
LoopResponses ==
    {LoopResponse(ChatError, <<>>, <<>>),
     LoopResponse(NoErr, TextPlain, <<>>),
     LoopResponse(NoErr, TextPlain, <<Choice(<<"tool_calls">>, <<>>, <<ToolCallA>>)>>),
     LoopResponse(NoErr, <<>>, <<>>),
     LoopResponse(NoErr, <<>>, <<Choice(<<"stop">>, <<Ch("done")>>, <<>>)>>),
     LoopResponse(NoErr, <<>>, <<Choice(<<"stop">>, <<>>, <<ToolCallA>>)>>),
     LoopResponse(NoErr, <<>>, <<Choice(<<"tool_calls">>, <<>>, <<>>)>>),
     LoopResponse(NoErr, <<>>, <<Choice(<<"tool_calls">>, <<>>, <<ToolCallA>>)>>),
     LoopResponse(NoErr, <<>>, <<Choice(<<"length", "tool_calls">>, <<>>, <<ToolCallA, ToolCallB>>)>>)}

\* the (result, err) of ToolExecutor.Execute; json = the result is the text
\* of a JSON object
Outcome(result, json, err) == [result |-> result, json |-> json, err |-> err]

ToolFailure == Errorf("tool call failed: ", Errorf("send request failed: ", <<Ch("broken pipe")>>))

LoopOutcomes(toolCall) ==
    {Outcome(<<>>, FALSE, ToolFailure),
     IF toolCall = ToolCallA
     THEN Outcome(<<Ch("{\"total\":1}")>>, TRUE, NoErr)
     ELSE Outcome(<<Ch("order created")>>, FALSE, NoErr)}

\* json.MarshalIndent(prettyJSON, "", "  ") of a decoded object
MarshalIndent(text) == <<Ch("{"), NL, SP, SP>> \o text \o <<NL, Ch("}")>>

ToolMessageOnSuccessOnly(o) ==
    Message("tool", IF o.err # NoErr THEN <<>> ELSE o.result)

\* the tool-result message built from what Execute returned
ToolMessage(o) ==
    LET result == IF o.err # NoErr
                  THEN <<Ch("tool execution failed: ")>> \o o.err
                  ELSE o.result
    IN  Message("tool", IF o.err = NoErr /\ o.json THEN MarshalIndent(result) ELSE result)

NoReturn == [text |-> <<>>, err |-> NoErr]
NoOutcome == Outcome(<<>>, FALSE, NoErr)

NoLoop == [pc |-> "idle", i |-> 0, calls |-> 0, currentMessages |-> <<>>,
           toolCalls |-> <<>>, responses |-> <<>>, outcome |-> NoOutcome,
           ret |-> NoReturn]

\* ------------------------------------------------------------------ the shop service: data

\* the range of Java's int
MaxInt == 2147483647
MinInt == -MaxInt - 1

\* a + b in int arithmetic (two's complement, 32 bits)
AddInt(a, b) ==
    IF b > 0 /\ a > MaxInt - b THEN (a - MaxInt - 1) + (b - MaxInt - 1)
    ELSE IF b < 0 /\ a < MinInt - b THEN (a + MaxInt + 1) + (b + MaxInt + 1)
    ELSE a + b

\* -a in int arithmetic
NegInt(a) == IF a = MinInt THEN MinInt ELSE 0 - a

MaxOps == 3

\* the ids of the first two products DataInitializer saves
ProductIds == {1, 2}
UnknownProductId == 9

InitialStock == [id \in ProductIds |-> IF id = 1 THEN 50 ELSE 30]

OrderStatus == {"PENDING", "CONFIRMED", "SHIPPED", "DELIVERED", "CANCELLED"}

\* a row of the orders table; byCreateOrder tells the rows createOrder saved
\* from those DataInitializer saved
Order(orderNumber, product, quantity, status, byCreateOrder) ==
    [orderNumber |-> orderNumber, product |-> product, quantity |-> quantity,
     status |-> status, byCreateOrder |-> byCreateOrder]

\* DataInitializer.initOrders
SeedOrders ==
    <<Order(<<"ORD-", "001">>, 1, 1, "SHIPPED", FALSE),
      Order(<<"ORD-", "002">>, 1, 1, "PENDING", FALSE)>>

\* System.currentTimeMillis() at the @PrePersist of an order
Millis == {"1700000000001", "1700000000002"}

\* Order.generateOrderNumber
generateOrderNumber(ms) == <<"ORD-", ms>>

OrderNumbers ==
    {SeedOrders[k].orderNumber : k \in 1..Len(SeedOrders)}
    \cup {generateOrderNumber(ms) : ms \in Millis}
    \cup {<<"ORD-", "404">>}

Quantities == {MinInt, -1, 0, 1, 51, MaxInt}
StockDeltas == {-51, -1, 1, MaxInt}

ProductNotFound == "product not found"
InsufficientStock == "insufficient stock"
OrderNotFound == "order not found"
StatusNotCancellable == "order status does not allow cancellation"
DuplicateOrderNumber == "unique constraint violated: order_number"

\* what a @Transactional service method leaves: ok with the new tables, or
\* the exception's message with the tables as they were (rollback)
Committed(st, os) == [ok |-> TRUE, err |-> "", stock |-> st, orders |-> os]
RolledBack(st, os, err) == [ok |-> FALSE, err |-> err, stock |-> st, orders |-> os]

NegativeStockAllowed(newStock) == FALSE

\* ProductService.updateStock: if (newStock < 0) throw
NegativeStock(newStock) == newStock < 0

\* ProductService.updateStock on the tables (st, os)
updateStock(st, os, productId, quantity) ==
    IF productId \notin DOMAIN st THEN RolledBack(st, os, ProductNotFound)
    ELSE LET newStock == AddInt(st[productId], quantity)
         IN  IF NegativeStock(newStock)
             THEN RolledBack(st, os, InsufficientStock)
             ELSE Committed([st EXCEPT ![productId] = newStock], os)

\* findByOrderNumber: the positions of the rows with this number (at most one,
\* the column is unique)
findByOrderNumber(os, orderNumber) ==
    {k \in 1..Len(os) : os[k].orderNumber = orderNumber}

\* OrderService.createOrder on the tables (st, os); ms is the clock at save
createOrder(st, os, productId, quantity, ms) ==
    IF productId \notin DOMAIN st THEN RolledBack(st, os, ProductNotFound)
    ELSE IF st[productId] < quantity THEN RolledBack(st, os, InsufficientStock)
    ELSE LET order == Order(generateOrderNumber(ms), productId, quantity, "PENDING", TRUE)
             r == updateStock(st, Append(os, order), productId, NegInt(quantity))
         IN  IF ~r.ok THEN RolledBack(st, os, r.err)
             ELSE IF findByOrderNumber(os, order.orderNumber) # {}
             THEN RolledBack(st, os, DuplicateOrderNumber)
             ELSE r

\* OrderService.updateOrderStatus
updateOrderStatus(st, os, orderNumber, newStatus) ==
    LET found == findByOrderNumber(os, orderNumber)
    IN  IF found = {} THEN RolledBack(st, os, OrderNotFound)
        ELSE LET k == CHOOSE k \in found : TRUE
             IN  Committed(st, [os EXCEPT ![k].status = newStatus])

CancellableAlways(status) == TRUE

\* OrderService.cancelOrder: only PENDING and CONFIRMED orders are cancelled
Cancellable(status) == status = "PENDING" \/ status = "CONFIRMED"

\* OrderService.cancelOrder
cancelOrder(st, os, orderNumber) ==
    LET found == findByOrderNumber(os, orderNumber)
    IN  IF found = {} THEN RolledBack(st, os, OrderNotFound)
        ELSE LET k == CHOOSE k \in found : TRUE
                 r == updateStock(st, os, os[k].product, os[k].quantity)
             IN  IF ~Cancellable(os[k].status) THEN RolledBack(st, os, StatusNotCancellable)
                 ELSE IF ~r.ok THEN RolledBack(st, os, r.err)
                 ELSE Committed(r.stock, [r.orders EXCEPT ![k].status = "CANCELLED"])

\* the operation a controller ran last
Op(name, productId, quantity, orderNumber, status, ok, err) ==
    [name |-> name, productId |-> productId, quantity |-> quantity,
     orderNumber |-> orderNumber, status |-> status, ok |-> ok, err |-> err]

NoOp == Op("", 0, 0, <<>>, "", TRUE, "")

\* the shop after DataInitializer has run; chatWithToolCalling not entered
Elsewhere ==
    /\ loop = NoLoop
    /\ stock = InitialStock
    /\ orders = SeedOrders
    /\ last = NoOp
    /\ ops = 0

Init ==
    /\ Elsewhere
    /\ pc = [p \in Procs |-> IF p = Main THEN "start" ELSE "idle"]
    /\ cmd = "none"
    /\ stdinOpen = FALSE
    /\ stdinQ = <<>>
    /\ stdoutQ = <<>>
    /\ stray = 0
    /\ mu = NoProc
    /\ msgID = 0
    /\ globalMCPClient = FALSE
    /\ collectionID = ""
    /\ call = [p \in Procs |-> NoCall]
    /\ turn = [p \in Handlers |-> NoTurn]
    /\ wire = <<>>
    /\ handshake = NoHandshake

\* a handler runs only while main is inside router.Run
Running(p) == p = Main \/ pc[Main] = "serving"

Event(op, p, id) == [op |-> op, p |-> p, id |-> id]

\* ------------------------------------------------------------------ the sidecar

SidecarAnswer ==
    /\ pc[Main] # "fatal"
    /\ cmd = "running"
    /\ stdinQ # <<>>
    /\ \E a \in Answers(Head(stdinQ)) : stdoutQ' = Append(stdoutQ, a)
    /\ stdinQ' = Tail(stdinQ)
    /\ UNCHANGED <<loop, shopVars>>
    /\ UNCHANGED <<pc, cmd, stdinOpen, stray, mu, msgID, globalMCPClient, collectionID,
                   call, turn, wire, handshake>>

SidecarStray ==
    /\ pc[Main] # "fatal"
    /\ cmd = "running"
    /\ stray < MaxStray
    /\ \E l \in {GarbageLine, NotificationLine} : stdoutQ' = Append(stdoutQ, l)
    /\ stray' = stray + 1
    /\ UNCHANGED <<loop, shopVars>>
    /\ UNCHANGED <<pc, cmd, stdinOpen, stdinQ, mu, msgID, globalMCPClient, collectionID,
                   call, turn, wire, handshake>>

SidecarExit ==
    /\ pc[Main] # "fatal"
    /\ cmd = "running"
    /\ cmd' = "exited"
    /\ UNCHANGED <<loop, shopVars>>
    /\ UNCHANGED <<pc, stdinOpen, stdinQ, stdoutQ, stray, mu, msgID, globalMCPClient,
                   collectionID, call, turn, wire, handshake>>

\* ------------------------------------------------------------------ main

\* NewMCPClient up to the call of initialize, whose first statement is nextID
Spawn ==
    /\ pc[Main] = "start"
    /\ \/ /\ pc' = [pc EXCEPT ![Main] = "fatal"]
          /\ UNCHANGED <<cmd, stdinOpen, call>>
       \/ /\ cmd' = "running"
          /\ stdinOpen' = TRUE
          /\ call' = [call EXCEPT ![Main] = [NoCall EXCEPT !.method = "initialize"]]
          /\ pc' = [pc EXCEPT ![Main] = "nextid_load"]
    /\ UNCHANGED <<loop, shopVars>>
    /\ UNCHANGED <<stdinQ, stdoutQ, stray, mu, msgID, globalMCPClient, collectionID,
                   turn, wire, handshake>>

\* client.Close() after a failed initialize: cmd.Wait() returns when the
\* sidecar has exited, then NewMCPClient returns the error and main stops
CloseWait ==
    /\ pc[Main] = "close_wait"
    /\ cmd = "exited"
    /\ pc' = [pc EXCEPT ![Main] = "fatal"]
    /\ UNCHANGED <<loop, shopVars>>
    /\ UNCHANGED <<cmd, stdinOpen, stdinQ, stdoutQ, stray, mu, msgID, globalMCPClient,
                   collectionID, call, turn, wire, handshake>>

\* router.Run: it serves, or it returns at once and main stops with log.Fatalf
RouterRun ==
    /\ pc[Main] = "run"
    /\ \/ pc' = [pc EXCEPT ![Main] = "serving"]
       \/ pc' = [pc EXCEPT ![Main] = "fatal"]
    /\ UNCHANGED <<loop, shopVars>>
    /\ UNCHANGED <<cmd, stdinOpen, stdinQ, stdoutQ, stray, mu, msgID, globalMCPClient,
                   collectionID, call, turn, wire, handshake>>

\* router.Run returns while serving: log.Fatalf ends the process and with it
\* every handler goroutine and its locals
ServerStops ==
    /\ pc[Main] = "serving"
    /\ pc' = [p \in Procs |-> IF p = Main THEN "fatal" ELSE "killed"]
    /\ call' = [p \in Procs |-> NoCall]
    /\ turn' = [p \in Handlers |-> NoTurn]
    /\ UNCHANGED <<loop, shopVars>>
    /\ UNCHANGED <<cmd, stdinOpen, stdinQ, stdoutQ, stray, mu, msgID, globalMCPClient,
                   collectionID, wire, handshake>>

\* ------------------------------------------------------------------ MCPClient

MuAvailableAlways(m) == TRUE

\* c.mu.Lock() returns only when nobody holds the mutex
MuAvailable(m) == m = NoProc

\* HandleChat's reply once Execute has returned
ToolReply(responseText, ex) ==
    IF ex.ok THEN ToolSuccessReply(responseText, ex.text) ELSE ToolFailureReply(ex.err)

\* nextID is `c.msgID++; return c.msgID`, run by the caller before sendRequest
\* takes the mutex: a load, a store and a second load of the shared counter
NextIDLoad(p) ==
    /\ Running(p)
    /\ pc[p] = "nextid_load"
    /\ call' = [call EXCEPT ![p].tmp = msgID]
    /\ pc' = [pc EXCEPT ![p] = "nextid_store"]
    /\ UNCHANGED <<loop, shopVars>>
    /\ UNCHANGED <<cmd, stdinOpen, stdinQ, stdoutQ, stray, mu, msgID, globalMCPClient,
                   collectionID, turn, wire, handshake>>

NextIDStore(p) ==
    /\ Running(p)
    /\ pc[p] = "nextid_store"
    /\ msgID' = call[p].tmp + 1
    /\ pc' = [pc EXCEPT ![p] = "nextid_ret"]
    /\ UNCHANGED <<loop, shopVars>>
    /\ UNCHANGED <<cmd, stdinOpen, stdinQ, stdoutQ, stray, mu, globalMCPClient,
                   collectionID, call, turn, wire, handshake>>

\* the returned value is the stored one (kept in a register) or the counter
\* as it is now (loaded again); the request envelope is built from it
NextIDReturn(p) ==
    /\ Running(p)
    /\ pc[p] = "nextid_ret"
    /\ \E id \in {call[p].tmp + 1, msgID} :
          call' = [call EXCEPT ![p].req =
                      MCPRequest(id, call[p].method, call[p].name, call[p].arguments)]
    /\ pc' = [pc EXCEPT ![p] = "lock"]
    /\ UNCHANGED <<loop, shopVars>>
    /\ UNCHANGED <<cmd, stdinOpen, stdinQ, stdoutQ, stray, mu, msgID, globalMCPClient,
                   collectionID, turn, wire, handshake>>

\* sendRequest: c.mu.Lock()
SendRequestLock(p) ==
    /\ Running(p)
    /\ pc[p] = "lock"
    /\ MuAvailable(mu)
    /\ mu' = p
    /\ pc' = [pc EXCEPT ![p] = "write"]
    /\ UNCHANGED <<loop, shopVars>>
    /\ UNCHANGED <<cmd, stdinOpen, stdinQ, stdoutQ, stray, msgID, globalMCPClient,
                   collectionID, call, turn, wire, handshake>>

\* what the caller of sendRequest does with (err, resp), up to its next
\* access to shared state
SendRequestReturns(p, err, resp) ==
    IF call[p].method = "initialize"
    THEN /\ handshake' = [done |-> TRUE, err |-> err, line |-> resp]
         /\ IF InitializeFails(err, resp)
            THEN /\ stdinOpen' = FALSE
                 /\ pc' = [pc EXCEPT ![p] = "close_wait"]
                 /\ call' = [call EXCEPT ![p] = NoCall]
                 /\ UNCHANGED globalMCPClient
            ELSE /\ globalMCPClient' = TRUE
                 /\ call' = [call EXCEPT ![p] = [NoCall EXCEPT !.method = "tools/list"]]
                 /\ pc' = [pc EXCEPT ![p] = "nextid_load"]
                 /\ UNCHANGED stdinOpen
         /\ UNCHANGED turn
    ELSE IF call[p].method = "tools/list"
    THEN /\ pc' = [pc EXCEPT ![p] = "run"]
         /\ call' = [call EXCEPT ![p] = NoCall]
         /\ UNCHANGED <<stdinOpen, globalMCPClient, turn, handshake>>
    ELSE /\ LET ex == ExecuteResult(CallToolResult(err, resp))
            IN turn' = [turn EXCEPT ![p].exec = ex,
                                    ![p].resp = ToolReply(turn[p].up.text, ex)]
         /\ call' = [call EXCEPT ![p].resp = resp, ![p].err = err]
         /\ pc' = [pc EXCEPT ![p] = "done"]
         /\ UNCHANGED <<stdinOpen, globalMCPClient, handshake>>

DeferredUnlockNever(holder, err) == holder

DeferredUnlockOnSuccess(holder, err) == IF err = NoErr THEN NoProc ELSE holder

\* defer c.mu.Unlock(): the holder of the mutex once sendRequest has
\* returned err
DeferredUnlock(holder, err) == NoProc

WriteFailed == Errorf("send request failed: ", <<Ch("broken pipe")>>)
DecodeFailed == Errorf("parse response failed: ", <<Ch("invalid character")>>)
ReadFailed == Errorf("read response failed: ", <<Ch("EOF")>>)

\* sendRequest: c.stdin.Write(append(reqJSON, '\n'))
SendRequestWrite(p) ==
    /\ Running(p)
    /\ pc[p] = "write"
    /\ IF stdinOpen /\ cmd = "running"
       THEN /\ stdinQ' = Append(stdinQ, call[p].req)
            /\ wire' = Append(wire, Event("w", p, call[p].req.id))
            /\ pc' = [pc EXCEPT ![p] = "read"]
            /\ UNCHANGED <<mu, stdinOpen, globalMCPClient, call, turn, handshake>>
       ELSE /\ mu' = DeferredUnlock(p, WriteFailed)
            /\ SendRequestReturns(p, WriteFailed, ZeroResp)
            /\ UNCHANGED <<stdinQ, wire>>
    /\ UNCHANGED <<loop, shopVars>>
    /\ UNCHANGED <<cmd, stdoutQ, stray, msgID, collectionID>>

\* sendRequest: bufio.NewReader(c.stdout).ReadBytes('\n'), json.Unmarshal and
\* the deferred Unlock.  The reader is new in every call: it takes what the
\* pipe holds (k lines), returns the first line and is dropped with the rest.
SendRequestRead(p) ==
    /\ Running(p)
    /\ pc[p] = "read"
    /\ \/ /\ stdoutQ # <<>>
          /\ \E k \in 1..Len(stdoutQ) : stdoutQ' = SubSeq(stdoutQ, k + 1, Len(stdoutQ))
          /\ wire' = Append(wire, Event("r", p, call[p].req.id))
          /\ IF DecodeFails(Head(stdoutQ))
             THEN /\ SendRequestReturns(p, DecodeFailed, ZeroResp)
                  /\ mu' = DeferredUnlock(p, DecodeFailed)
             ELSE /\ SendRequestReturns(p, NoErr, Head(stdoutQ))
                  /\ mu' = DeferredUnlock(p, NoErr)
       \/ /\ stdoutQ = <<>>
          /\ cmd = "exited"
          /\ UNCHANGED stdoutQ
          /\ wire' = Append(wire, Event("x", p, call[p].req.id))
          /\ SendRequestReturns(p, ReadFailed, ZeroResp)
          /\ mu' = DeferredUnlock(p, ReadFailed)
    /\ UNCHANGED <<loop, shopVars>>
    /\ UNCHANGED <<cmd, stdinQ, stray, msgID, collectionID>>

\* ------------------------------------------------------------------ ChatHandler.HandleChat

SearchAbortsOnError(err) == err # NoErr

\* the body of `if err != nil` after SearchKnowledge only logs: no return
SearchAborts(err) == FALSE

\* HandleChat from the return of SearchKnowledge to the call of Chat
AfterSearch(p, err, docs) ==
    IF SearchAborts(err)
    THEN /\ turn' = [turn EXCEPT ![p].ragErr = err,
                                 ![p].resp = HTTPResponse(StatusInternalServerError, "error",
                                                          GenericErrorMessage)]
         /\ pc' = [pc EXCEPT ![p] = "done"]
    ELSE /\ turn' = [turn EXCEPT ![p].ragErr = err,
                                 ![p].knowledgeDocs = docs,
                                 ![p].messages = AssembleMessages(docs, turn[p].req.History,
                                                                  turn[p].req.Message)]
         /\ pc' = [pc EXCEPT ![p] = "llm"]

\* ShouldBindJSON, then SearchKnowledge up to its test of c.collectionID
HandleChat(p) ==
    /\ Running(p)
    /\ pc[p] = "idle"
    /\ \/ /\ turn' = [turn EXCEPT ![p].resp = HTTPResponse(StatusBadRequest, "error",
                                                           BadRequestMessage)]
          /\ pc' = [pc EXCEPT ![p] = "done"]
       \/ /\ \E r \in Requests : turn' = [turn EXCEPT ![p].req = r]
          /\ pc' = [pc EXCEPT ![p] = IF collectionID = "" THEN "rag_list" ELSE "rag_query"]
    /\ UNCHANGED <<loop, shopVars>>
    /\ UNCHANGED <<cmd, stdinOpen, stdinQ, stdoutQ, stray, mu, msgID, globalMCPClient,
                   collectionID, call, wire, handshake>>

\* initializeCollection: the list call fails or names no such collection, or
\* the id is stored in the shared client
InitializeCollection(p) ==
    /\ Running(p)
    /\ pc[p] = "rag_list"
    /\ \/ /\ AfterSearch(p, Errorf("init collection failed: ", <<Ch("collection does not exist")>>),
                         <<>>)
          /\ UNCHANGED collectionID
       \/ /\ collectionID' = "c1"
          /\ pc' = [pc EXCEPT ![p] = "rag_query"]
          /\ UNCHANGED turn
    /\ UNCHANGED <<loop, shopVars>>
    /\ UNCHANGED <<cmd, stdinOpen, stdinQ, stdoutQ, stray, mu, msgID, globalMCPClient,
                   call, wire, handshake>>

\* generateEmbedding and queryChroma, then HandleChat up to the call of Chat.
\* A fault in queryChroma unwinds HandleChat; gin's Recovery answers 500.
SearchKnowledge(p) ==
    /\ Running(p)
    /\ pc[p] = "rag_query"
    /\ \/ AfterSearch(p, Errorf("embedding failed: ", <<Ch("status 401")>>), <<>>)
       \/ AfterSearch(p, Errorf("query failed: ", <<Ch("status 500")>>), <<>>)
       \/ \E r \in ChromaResults :
            IF queryChromaFaults(r)
            THEN /\ turn' = [turn EXCEPT ![p].resp =
                                HTTPResponse(StatusInternalServerError, "", <<>>)]
                 /\ pc' = [pc EXCEPT ![p] = "done"]
            ELSE AfterSearch(p, NoErr, queryChroma(r))
    /\ UNCHANGED <<loop, shopVars>>
    /\ UNCHANGED <<cmd, stdinOpen, stdinQ, stdoutQ, stray, mu, msgID, globalMCPClient,
                   collectionID, call, wire, handshake>>

\* Chat, parseToolCallFromXML and, for a directive, Execute up to CallTool's
\* nextID.  The request, the snippets and the message list are not read again.
ChatWith(p, answers) ==
    /\ Running(p)
    /\ pc[p] = "llm"
    /\ \E u \in answers :
         LET tc == parseToolCallFromXML(u.text)
             t == [NoTurn EXCEPT !.up = u, !.chatCalls = 1]
         IN IF ChatFails(u)
            THEN /\ turn' = [turn EXCEPT ![p] = [t EXCEPT !.resp = CompletionFailureReply]]
                 /\ pc' = [pc EXCEPT ![p] = "done"]
                 /\ UNCHANGED call
            ELSE IF ~tc.found
            THEN /\ turn' = [turn EXCEPT ![p] = [t EXCEPT !.resp = PlainReply(u.text)]]
                 /\ pc' = [pc EXCEPT ![p] = "done"]
                 /\ UNCHANGED call
            ELSE IF ~globalMCPClient
            THEN /\ LET ex == [ok |-> FALSE, text |-> <<>>,
                               err |-> Errorf("MCP client not initialized", <<>>)]
                    IN turn' = [turn EXCEPT ![p] = [t EXCEPT !.toolCall = tc, !.exec = ex,
                                                             !.resp = ToolReply(u.text, ex)]]
                 /\ pc' = [pc EXCEPT ![p] = "done"]
                 /\ UNCHANGED call
            ELSE /\ turn' = [turn EXCEPT ![p] = [t EXCEPT !.toolCall = tc]]
                 /\ call' = [call EXCEPT ![p] =
                               [NoCall EXCEPT !.method = "tools/call",
                                              !.name = tc.ToolName,
                                              !.arguments = MarshalArgs(UnmarshalArgs(
                                                                MarshalArgs(tc.Arguments)))]]
                 /\ pc' = [pc EXCEPT ![p] = "nextid_load"]
    /\ UNCHANGED <<loop, shopVars>>
    /\ UNCHANGED <<cmd, stdinOpen, stdinQ, stdoutQ, stray, mu, msgID, globalMCPClient,
                   collectionID, wire, handshake>>

Chat(p) == ChatWith(p, Upstreams)

\* ------------------------------------------------------------------ specification

Next ==
    \/ Spawn
    \/ CloseWait
    \/ RouterRun
    \/ ServerStops
    \/ SidecarAnswer
    \/ SidecarStray
    \/ SidecarExit
    \/ \E p \in Procs : NextIDLoad(p)
    \/ \E p \in Procs : NextIDStore(p)
    \/ \E p \in Procs : NextIDReturn(p)
    \/ \E p \in Procs : SendRequestLock(p)
    \/ \E p \in Procs : SendRequestWrite(p)
    \/ \E p \in Procs : SendRequestRead(p)
    \/ \E p \in Handlers : HandleChat(p)
    \/ \E p \in Handlers : InitializeCollection(p)
    \/ \E p \in Handlers : SearchKnowledge(p)
    \/ \E p \in Handlers : Chat(p)

Spec == Init /\ [][Next]_vars

\* ------------------------------------------------------------------ message assembly alone

\* the connection once main is inside router.Run: initialize and tools/list
\* were written and answered, nothing is in flight
StartedUp ==
    /\ Elsewhere
    /\ cmd = "running"
    /\ stdinOpen = TRUE
    /\ stdinQ = <<>>
    /\ stdoutQ = <<>>
    /\ stray = 0
    /\ mu = NoProc
    /\ msgID = 2
    /\ globalMCPClient = TRUE
    /\ call = [p \in Procs |-> NoCall]
    /\ wire = <<Event("w", Main, 1), Event("r", Main, 1),
                Event("w", Main, 2), Event("r", Main, 2)>>
    /\ handshake = [done |-> TRUE, err |-> NoErr,
                    line |-> RespLine(1, NoError, ToolResult(<<>>))]

\* one handler has bound a request body and is inside SearchKnowledge
InitAssemble ==
    /\ StartedUp
    /\ collectionID = "c1"
    /\ pc = [p \in Procs |-> IF p = Main THEN "serving"
                              ELSE IF p = 1 THEN "rag_query" ELSE "idle"]
    /\ \E r \in AssembleRequests :
          turn = [p \in Handlers |-> IF p = 1 THEN [NoTurn EXCEPT !.req = r] ELSE NoTurn]

NextAssemble == \E p \in Handlers : SearchKnowledge(p)

SpecAssemble == InitAssemble /\ [][NextAssemble]_vars

\* ------------------------------------------------------------------ extraction and dispatch alone

\* one handler has assembled its message list and calls the completion client
InitParse ==
    /\ StartedUp
    /\ collectionID = "c1"
    /\ pc = [p \in Procs |-> IF p = Main THEN "serving"
                              ELSE IF p = 1 THEN "llm" ELSE "idle"]
    /\ \E r \in Requests :
          turn = [p \in Handlers |->
                    IF p = 1
                    THEN [NoTurn EXCEPT !.req = r,
                                        !.messages = AssembleMessages(<<>>, r.History, r.Message)]
                    ELSE NoTurn]

\* the completion answers with one of the generated texts
ChatParse(p) == ChatWith(p, ParseUpstreams)

NextParse ==
    \/ SidecarAnswer
    \/ \E p \in Handlers : ChatParse(p)
    \/ \E p \in Handlers : NextIDLoad(p)
    \/ \E p \in Handlers : NextIDStore(p)
    \/ \E p \in Handlers : NextIDReturn(p)
    \/ \E p \in Handlers : SendRequestLock(p)
    \/ \E p \in Handlers : SendRequestWrite(p)
    \/ \E p \in Handlers : SendRequestRead(p)

SpecParse == InitParse /\ [][NextParse]_vars

\* ------------------------------------------------------------------ startup alone

\* the steps of the main goroutine from NewMCPClient to router.Run
MainStep ==
    \/ Spawn
    \/ CloseWait
    \/ RouterRun
    \/ NextIDLoad(Main)
    \/ NextIDStore(Main)
    \/ NextIDReturn(Main)
    \/ SendRequestLock(Main)
    \/ SendRequestWrite(Main)
    \/ SendRequestRead(Main)

NextStartup ==
    \/ SidecarAnswer
    \/ SidecarStray
    \/ SidecarExit
    \/ MainStep

\* the main goroutine keeps running and the sidecar answers what it has
\* read; nothing obliges the sidecar to exit
SpecStartup ==
    Init /\ [][NextStartup]_vars /\ WF_vars(MainStep) /\ WF_vars(SidecarAnswer)

\* ------------------------------------------------------------------ retrieval alone

\* the service is up, no request has arrived, the shared ChromaClient has
\* not yet resolved its collection
InitRetrieval ==
    /\ StartedUp
    /\ collectionID = ""
    /\ pc = [p \in Procs |-> IF p = Main THEN "serving" ELSE "idle"]
    /\ turn = [p \in Handlers |-> NoTurn]

NextRetrieval ==
    \/ \E p \in Handlers : HandleChat(p)
    \/ \E p \in Handlers : InitializeCollection(p)
    \/ \E p \in Handlers : SearchKnowledge(p)

SpecRetrieval == InitRetrieval /\ [][NextRetrieval]_vars

\* ------------------------------------------------------------------ the gateway under load

\* the service is up and every handler has assembled its message list
InitGateway ==
    /\ StartedUp
    /\ collectionID = "c1"
    /\ pc = [p \in Procs |-> IF p = Main THEN "serving" ELSE "llm"]
    /\ \E r \in Requests :
          turn = [p \in Handlers |->
                    [NoTurn EXCEPT !.req = r,
                                   !.messages = AssembleMessages(<<>>, r.History, r.Message)]]

\* the steps of handler p that wait for nothing but the scheduler
HandlerStep(p) ==
    \/ Chat(p)
    \/ NextIDLoad(p)
    \/ NextIDStore(p)
    \/ NextIDReturn(p)
    \/ SendRequestWrite(p)

\* ReadBytes can return: the enabling condition of SendRequestRead(p)
ReadReady(p) ==
    /\ Running(p)
    /\ pc[p] = "read"
    /\ (stdoutQ # <<>> \/ cmd = "exited")

\* a blocked ReadBytes returns once a line is in the pipe: weak fairness of
\* SendRequestRead(p), with its enabling condition written out
ReadFair(p) ==
    ([]<>~ReadReady(p)) \/ ([]<><<SendRequestRead(p)>>_vars)

NextGateway ==
    \/ SidecarAnswer
    \/ \E p \in Handlers : HandlerStep(p)
    \/ \E p \in Handlers : SendRequestLock(p)
    \/ \E p \in Handlers : SendRequestRead(p)

\* handlers keep running; whether the sidecar ever answers is left open
SpecGatewayMute ==
    /\ InitGateway
    /\ [][NextGateway]_vars
    /\ \A p \in Handlers : WF_vars(HandlerStep(p))
    /\ \A p \in Handlers : ReadFair(p)

\* the sidecar answers every request line it received and the mutex is
\* granted fairly
SpecGateway ==
    /\ SpecGatewayMute
    /\ WF_vars(SidecarAnswer)
    /\ \A p \in Handlers : SF_vars(SendRequestLock(p))

\* ------------------------------------------------------------------ chatWithToolCalling

LoopMessages == <<Message("system", SystemPrompt), Message("user", Msg1)>>

\* the call: maxIterations := 5, currentMessages := messages, i := 0
LoopStart ==
    /\ loop.pc = "idle"
    /\ loop' = [NoLoop EXCEPT !.pc = "chat", !.currentMessages = LoopMessages]
    /\ UNCHANGED <<gatewayVars, shopVars>>

\* one h.llmClient.Chat and the branch on its response
LoopChat ==
    /\ loop.pc = "chat"
    /\ \E response \in LoopResponses :
          LET l == [loop EXCEPT !.calls = @ + 1, !.responses = Append(@, response)]
          IN  loop' =
                 IF response.err # NoErr
                 THEN [l EXCEPT !.pc = "returned", !.ret = [text |-> <<>>, err |-> response.err]]
                 ELSE IF ShouldCallTool(response)
                 THEN [l EXCEPT !.pc = "tools",
                                !.toolCalls = GetToolCalls(response),
                                !.currentMessages = Append(@, Message("assistant", <<>>))]
                 ELSE [l EXCEPT !.pc = "returned",
                                !.ret = [text |-> GetTextResponse(response), err |-> NoErr]]
    /\ UNCHANGED <<gatewayVars, shopVars>>

\* one pass of `for _, toolCall := range toolCalls`
LoopExecute ==
    /\ loop.pc = "tools"
    /\ loop.toolCalls # <<>>
    /\ \E o \in LoopOutcomes(Head(loop.toolCalls)) :
          loop' = [loop EXCEPT !.toolCalls = Tail(@),
                               !.outcome = o,
                               !.currentMessages = Append(@, ToolMessage(o))]
    /\ UNCHANGED <<gatewayVars, shopVars>>

\* continue: i++, then the loop test; after the last round the fallback
LoopContinue ==
    /\ loop.pc = "tools"
    /\ loop.toolCalls = <<>>
    /\ loop' = IF loop.i + 1 < maxIterations
               THEN [loop EXCEPT !.i = @ + 1, !.pc = "chat"]
               ELSE [loop EXCEPT !.i = @ + 1, !.pc = "returned",
                                 !.ret = [text |-> FallbackMessage, err |-> NoErr]]
    /\ UNCHANGED <<gatewayVars, shopVars>>

NextLoop ==
    \/ LoopStart
    \/ LoopChat
    \/ LoopExecute
    \/ LoopContinue

\* the goroutine running the loop is scheduled and its calls return
SpecLoop == Init /\ [][NextLoop]_vars /\ WF_vars(NextLoop)

\* ------------------------------------------------------------------ the shop service

\* POST /api/orders
CreateOrder ==
    /\ ops < MaxOps
    /\ \E productId \in ProductIds \cup {UnknownProductId}, quantity \in Quantities,
          ms \in Millis :
          LET r == createOrder(stock, orders, productId, quantity, ms)
          IN  /\ stock' = r.stock
              /\ orders' = r.orders
              /\ last' = Op("createOrder", productId, quantity, generateOrderNumber(ms),
                            "", r.ok, r.err)
    /\ ops' = ops + 1
    /\ UNCHANGED <<gatewayVars, loop>>

\* DELETE /api/orders/{orderNumber}
CancelOrder ==
    /\ ops < MaxOps
    /\ \E orderNumber \in OrderNumbers :
          LET r == cancelOrder(stock, orders, orderNumber)
          IN  /\ stock' = r.stock
              /\ orders' = r.orders
              /\ last' = Op("cancelOrder", 0, 0, orderNumber, "", r.ok, r.err)
    /\ ops' = ops + 1
    /\ UNCHANGED <<gatewayVars, loop>>

\* PUT /api/orders/{orderNumber}/status
UpdateOrderStatus ==
    /\ ops < MaxOps
    /\ \E orderNumber \in OrderNumbers, newStatus \in OrderStatus :
          LET r == updateOrderStatus(stock, orders, orderNumber, newStatus)
          IN  /\ stock' = r.stock
              /\ orders' = r.orders
              /\ last' = Op("updateOrderStatus", 0, 0, orderNumber, newStatus, r.ok, r.err)
    /\ ops' = ops + 1
    /\ UNCHANGED <<gatewayVars, loop>>

\* ProductService.updateStock called on its own
UpdateStock ==
    /\ ops < MaxOps
    /\ \E productId \in ProductIds \cup {UnknownProductId}, quantity \in StockDeltas :
          LET r == updateStock(stock, orders, productId, quantity)
          IN  /\ stock' = r.stock
              /\ orders' = r.orders
              /\ last' = Op("updateStock", productId, quantity, <<>>, "", r.ok, r.err)
    /\ ops' = ops + 1
    /\ UNCHANGED <<gatewayVars, loop>>

\* the order operations of OrderController
NextOrders ==
    \/ CreateOrder
    \/ CancelOrder
    \/ UpdateOrderStatus

SpecOrders == Init /\ [][NextOrders]_vars

\* orders are created and cancelled and stock is adjusted
NextShop ==
    \/ CreateOrder
    \/ CancelOrder
    \/ UpdateStock

SpecShop == Init /\ [][NextShop]_vars

\* ------------------------------------------------------------------ properties

\* the positions of wire that are request writes of goroutine p
WritesOf(p) == {i \in 1..Len(wire) : wire[i].op = "w" /\ wire[i].p = p}

IsSuffix(t, s) == Len(t) <= Len(s) /\ SubSeq(s, Len(s) - Len(t) + 1, Len(s)) = t

\* C1: request/response exchanges on the shared connection never
\* interleave: the wire event that follows a request write is the read (or
\* the failed read) of the same call, and while a call waits for its
\* response its write is the last event on the wire.
C1_NoInterleaving ==
    /\ \A i \in 1..(Len(wire) - 1) :
          wire[i].op = "w" => wire[i+1].p = wire[i].p /\ wire[i+1].op \in {"r", "x"}
    /\ \A p \in Procs :
          pc[p] = "read" => /\ wire # <<>>
                            /\ wire[Len(wire)] = Event("w", p, call[p].req.id)
                            /\ mu = p

\* two handlers contend: one is between its write and its read while the
\* other waits for the mutex
C1_Witness ==
    \E p, q \in Handlers : p # q /\ pc[p] = "read" /\ pc[q] = "lock"

\* C2: the sequence ids of the requests, in the order they are written to
\* the sidecar, are strictly increasing (hence pairwise distinct).
C2_IdsIncreasing ==
    \A i, j \in 1..Len(wire) :
       (i < j /\ wire[i].op = "w" /\ wire[j].op = "w") => wire[i].id < wire[j].id

\* C3: a CallTool that returns a result returns the payload of the response
\* whose sequence id is the id of the request this call wrote.
C3_ResponseMatchesRequest ==
    \A p \in Handlers :
       (pc[p] = "done" /\ turn[p].exec.ok) => call[p].resp.id = call[p].req.id

\* C4: /chat is served only after the sidecar was spawned and initialize
\* read a well-formed response without an error object; a spawn failure, an
\* error response or a malformed handshake line end startup before the
\* router runs.
C4_ServesOnlyAfterHandshake ==
    /\ (pc[Main] \in {"run", "serving"} \/ \E p \in Handlers : pc[p] # "idle") =>
          /\ cmd # "none"
          /\ handshake.done
          /\ handshake.err = NoErr
          /\ handshake.line.valid
          /\ ~handshake.line.error.present
    /\ cmd = "none" => pc[Main] \in {"start", "fatal"}
    /\ (handshake.done /\ (handshake.err # NoErr \/ handshake.line.error.present)) =>
          pc[Main] \in {"close_wait", "fatal"}

C4_Witness ==
    /\ pc[Main] = "serving"
    /\ \E p \in Handlers : pc[p] = "done" /\ turn[p].resp.status = StatusOK

\* the first <func_call>...</func_call> block of a text: from the first
\* opening marker to the first closing marker after it
FirstBlockStart(s) == Min({i \in 1..Len(s) : s[i] = FO})
FirstBlockEnd(s) == Min({j \in (FirstBlockStart(s) + 1)..Len(s) : s[j] = FC})
HasBlock(s) ==
    \E i \in 1..Len(s) : s[i] = FO /\ \E j \in (i+1)..Len(s) : s[j] = FC
FirstBlock(s) == SubSeq(s, FirstBlockStart(s), FirstBlockEnd(s))

\* C5: in a chat turn at most one tool call is dispatched, and it is the
\* call described by the first <func_call> block of the completion text.
C5_AtMostOneDispatch ==
    \A p \in Handlers :
       /\ Cardinality(WritesOf(p)) <= 1
       /\ call[p].method = "tools/call" =>
             /\ turn[p].chatCalls = 1
             /\ HasBlock(turn[p].up.text)
             /\ LET d == parseToolCallFromXML(FirstBlock(turn[p].up.text))
                IN /\ d.found
                   /\ call[p].name = d.ToolName
                   /\ DOMAIN call[p].arguments = DOMAIN d.Arguments
                   /\ \A k \in DOMAIN d.Arguments :
                         call[p].arguments[k].v = d.Arguments[k].v
       /\ (WritesOf(p) # {} /\ pc[p] # "killed") =>
             /\ call[p].req.method = "tools/call"
             /\ call[p].req.name = call[p].name
             /\ call[p].req.arguments = call[p].arguments

\* a turn whose completion text holds two blocks has written its one request
C5_Witness ==
    \E p \in Handlers :
       /\ pc[p] = "done"
       /\ turn[p].up.text = TextTwo
       /\ Cardinality(WritesOf(p)) = 1

\* C6: when extraction finds no directive, no tool call is dispatched and
\* the reply of the HTTP 200 response is the completion text itself.
C6_PlainReplyVerbatim ==
    \A p \in Handlers :
       (/\ turn[p].chatCalls = 1
        /\ turn[p].up.sent /\ turn[p].up.status = 200 /\ turn[p].up.json
        /\ turn[p].up.code \in {"", "Success"}
        /\ ~parseToolCallFromXML(turn[p].up.text).found) =>
          /\ pc[p] = "done"
          /\ turn[p].resp = HTTPResponse(StatusOK, "reply", turn[p].up.text)
          /\ call[p] = NoCall
          /\ WritesOf(p) = {}

C6_Witness ==
    \E p, q \in Handlers :
       /\ pc[p] = "done" /\ turn[p].up.text = TextUnclosed /\ turn[p].resp.status = StatusOK
       /\ pc[q] = "done" /\ turn[q].up.text = TextPlain /\ turn[q].resp.status = StatusOK

RemoveFirstBlock(s) ==
    IF HasBlock(s)
    THEN SubSeq(s, 1, FirstBlockStart(s) - 1) \o SubSeq(s, FirstBlockEnd(s) + 1, Len(s))
    ELSE s

RECURSIVE RemoveEveryBlock(_)
RemoveEveryBlock(s) == IF HasBlock(s) THEN RemoveEveryBlock(RemoveFirstBlock(s)) ELSE s

Spliced(c, r) == IF c = <<>> THEN r ELSE c \o <<NL, NL>> \o r

\* the turn of p ended with a successful gateway call
ToolSucceeded(p) ==
    /\ pc[p] = "done"
    /\ turn[p].toolCall.found
    /\ call[p].err = NoErr
    /\ ~call[p].resp.error.present
    /\ call[p].resp.result.present
    /\ Len(call[p].resp.result.content) > 0

\* C7 as stated: after a successful gateway call with result text R the reply
\* is C + "\n\n" + R (R alone when C is empty), C being the completion text
\* with the directive block, the one that was executed, removed and trimmed.
C7_ReplyDropsTheDirectiveBlock ==
    \A p \in Handlers :
       ToolSucceeded(p) =>
          turn[p].resp = HTTPResponse(StatusOK, "reply",
                            Spliced(TrimSpace(RemoveFirstBlock(turn[p].up.text)),
                                    call[p].resp.result.content[1]))

\* C7 amended: after a successful gateway call with result text R the reply
\* is C + "\n\n" + R (R alone when C is empty), C being the completion text
\* with every <func_call>...</func_call> block removed and trimmed.
C7_ReplyDropsEveryBlock ==
    \A p \in Handlers :
       ToolSucceeded(p) =>
          turn[p].resp = HTTPResponse(StatusOK, "reply",
                            Spliced(TrimSpace(RemoveEveryBlock(turn[p].up.text)),
                                    call[p].resp.result.content[1]))

C7_Witness ==
    \E p, q \in Handlers :
       /\ ToolSucceeded(p) /\ turn[p].up.text = TextTwo
       /\ ToolSucceeded(q) /\ turn[q].up.text = TextOnly

\* the cause of a failed gateway call, as the connection saw it
FailureCause(p) ==
    IF call[p].err # NoErr THEN call[p].err
    ELSE IF call[p].resp.error.present THEN call[p].resp.error.message
    ELSE <<>>

\* the turn of p ended with a failed gateway call
ToolFailed(p) ==
    /\ pc[p] = "done"
    /\ turn[p].toolCall.found
    /\ ~ToolSucceeded(p)

\* C8: when the gateway call fails, the turn ends with HTTP 200 and a reply
\* that is the failure message followed by the error detail.
C8_ToolFailureIsA200Reply ==
    \A p \in Handlers :
       ToolFailed(p) =>
          /\ turn[p].resp.status = StatusOK
          /\ turn[p].resp.field = "reply"
          /\ Len(turn[p].resp.text) > 1
          /\ turn[p].resp.text[1] = Ch(FailurePrefix)
          /\ IsSuffix(FailureCause(p), turn[p].resp.text)
          /\ IsSuffix(turn[p].exec.err, turn[p].resp.text)

C8_Witness ==
    \E p, q \in Handlers :
       /\ ToolFailed(p) /\ call[p].resp.error.present
       /\ ToolFailed(q) /\ call[q].err # NoErr

\* C9: when the completion call fails, nothing is extracted or dispatched
\* and the response is the fixed generic error with status 500.
C9_CompletionFailureAborts ==
    \A p \in Handlers :
       (/\ turn[p].chatCalls = 1
        /\ \/ ~turn[p].up.sent
           \/ turn[p].up.status # 200
           \/ ~turn[p].up.json
           \/ turn[p].up.code \notin {"", "Success"}) =>
          /\ pc[p] = "done"
          /\ turn[p].resp = HTTPResponse(StatusInternalServerError, "error",
                                         GenericErrorMessage)
          /\ turn[p].toolCall = NoToolCall
          /\ call[p] = NoCall
          /\ WritesOf(p) = {}

C9_Witness ==
    \E p, q \in Handlers :
       /\ pc[p] = "done" /\ turn[p].up.code = "Throttling"
       /\ pc[q] = "done" /\ turn[q].up.status = 500

\* the message list holds no knowledge-context message: its only system
\* message is the preamble, and it ends with the current user message
NoContextMessage(msgs) ==
    /\ msgs # <<>>
    /\ msgs[1] = Message("system", SystemPrompt)
    /\ \A i \in 2..Len(msgs) : msgs[i].Role # "system"
    /\ msgs[Len(msgs)].Role = "user"

\* C10: a retrieval error never aborts the turn: HandleChat goes on with no
\* snippets, assembles a message list without a knowledge-context message,
\* and its next step is the completion call.
C10_RetrievalFailureNonFatal ==
    [][\A p \in Handlers :
          /\ turn'[p].ragErr # NoErr =>
                /\ pc'[p] = "llm"
                /\ turn'[p].knowledgeDocs = <<>>
                /\ NoContextMessage(turn'[p].messages)
          /\ (turn[p].ragErr # NoErr /\ pc'[p] # pc[p]) =>
                (turn'[p].chatCalls = 1 \/ pc'[Main] = "fatal")]_vars

C10_Witness ==
    \E p, q \in Handlers :
       /\ pc[p] = "llm" /\ turn[p].ragErr # NoErr
       /\ pc[q] = "done" /\ turn[q].chatCalls = 1

\* ------------------------------------------------------------------ properties of the assembly

\* the history without the echoes of the current message x
RECURSIVE HistoryKept(_, _)
HistoryKept(history, x) ==
    IF history = <<>> THEN <<>>
    ELSE IF Head(history).Role = "user" /\ Head(history).Content = x
    THEN HistoryKept(Tail(history), x)
    ELSE <<Head(history)>> \o HistoryKept(Tail(history), x)

\* C11: the message list handed to the completion client is the fixed
\* system preamble, then one system context message exactly when a snippet
\* was retrieved, then the history entries that are not skipped, in order and
\* unchanged, then the current message with role user.
C11_MessageListShape ==
    \A p \in Handlers :
       pc[p] = "llm" =>
          LET m == turn[p].messages
              d == turn[p].knowledgeDocs
              n == IF Len(d) > 0 THEN 2 ELSE 1
              kept == HistoryKept(turn[p].req.History, turn[p].req.Message)
          IN /\ Len(m) = n + Len(kept) + 1
             /\ m[1] = Message("system", SystemPrompt)
             /\ Len(d) > 0 => m[2] = Message("system", FormatContext(d))
             /\ \A i \in 1..Len(kept) : m[n + i] = kept[i]
             /\ m[Len(m)] = Message("user", turn[p].req.Message)

\* a snippet was retrieved and the history holds an echo before a kept entry
C11_Witness ==
    \E p \in Handlers :
       /\ pc[p] = "llm"
       /\ Len(turn[p].knowledgeDocs) > 0
       /\ turn[p].req.History = <<Message("user", Msg1), Message("assistant", Msg2)>>
       /\ Len(turn[p].messages) = 4

Count(s, e) == Cardinality({i \in 1..Len(s) : s[i] = e})

\* C12: the assembled list holds exactly one message with role user and
\* the content of the current message, in the last position; a history entry
\* is dropped exactly when it has role user and that content.
C12_EchoSkippedOnce ==
    \A p \in Handlers :
       pc[p] = "llm" =>
          LET m == turn[p].messages
              x == turn[p].req.Message
              h == turn[p].req.History
              n == IF Len(turn[p].knowledgeDocs) > 0 THEN 2 ELSE 1
              part == SubSeq(m, n + 1, Len(m) - 1)
          IN /\ {i \in 1..Len(m) : m[i] = Message("user", x)} = {Len(m)}
             /\ Count(part, Message("user", x)) = 0
             /\ \A e \in HistoryEntries \ {Message("user", x)} : Count(part, e) = Count(h, e)
             /\ Len(part) = Len(h) - Count(h, Message("user", x))

\* the history holds the echo and an assistant entry of the same content
C12_Witness ==
    \E p \in Handlers :
       /\ pc[p] = "llm"
       /\ turn[p].req.History = <<Message("assistant", Msg1), Message("user", Msg1)>>
       /\ Len(turn[p].messages) = 3

\* C13: in the assembled list every message with role system stands before
\* every message with role user or assistant.
C13_SystemMessagesFirst ==
    \A p \in Handlers :
       pc[p] = "llm" =>
          \A i, j \in 1..Len(turn[p].messages) :
             (/\ turn[p].messages[i].Role = "system"
              /\ turn[p].messages[j].Role \in {"user", "assistant"}) => i < j

\* ------------------------------------------------------------------ properties of the extraction

Keys(pairs) == {pairs[i].key : i \in 1..Len(pairs)}

\* the last pair of the block with key k
LastPair(pairs, k) == pairs[Max({i \in 1..Len(pairs) : pairs[i].key = k})]

\* the value the typing policy gives to a pair
ExpectedValue(pr) ==
    IF pr.key \in {"customerPhone", "orderId"} THEN StrVal(pr.trimmed)
    ELSE IF pr.isInt THEN IntVal(pr.val)
    ELSE StrVal(pr.trimmed)

\* two argument values are of one type and equal
SameValue(a, b) == a.t = b.t /\ a.v = b.v

\* handler p has written a tools/call request to the sidecar
Dispatched(p) == WritesOf(p) # {} /\ pc[p] # "killed"

\* C14: every dispatched tool call comes from a complete directive: its
\* tool name is not empty, its block has the tool-name field and the
\* arguments block, and its arguments are pairs of that arguments block.
C14_DispatchedDirectiveIsComplete ==
    \A p \in Handlers :
       Dispatched(p) =>
          /\ call[p].req.method = "tools/call"
          /\ turn[p].up.case.kind \notin {"unclosed", "noname", "noargs", "plain"}
          /\ DOMAIN call[p].req.arguments \subseteq Keys(turn[p].up.case.pairs)
          /\ call[p].req.name # <<>>

\* C15: for a completion text that holds a well-formed directive block,
\* parseToolCallFromXML reports found, returns the trimmed tool name and the
\* mapping whose keys are the keys of the pairs, each with its typed value.
C15_WellFormedIsExtracted ==
    \A p \in Handlers :
       (turn[p].chatCalls = 1 /\ turn[p].up.case.kind = "wellformed") =>
          LET c == turn[p].up.case
              tc == parseToolCallFromXML(turn[p].up.text)
          IN /\ tc.found
             /\ turn[p].toolCall = tc
             /\ tc.ToolName = c.name
             /\ DOMAIN tc.Arguments = Keys(c.pairs)
             /\ \A k \in Keys(c.pairs) :
                   SameValue(tc.Arguments[k], ExpectedValue(LastPair(c.pairs, k)))

\* C16: for a completion text whose directive lacks the closing marker,
\* the tool-name field or the arguments block, parseToolCallFromXML returns
\* not found and the turn ends with HTTP 200 and the completion text as reply.
C16_PartialDirectiveIsPlainText ==
    \A p \in Handlers :
       (turn[p].chatCalls = 1 /\ turn[p].up.case.kind \in {"unclosed", "noname", "noargs"}) =>
          /\ ~parseToolCallFromXML(turn[p].up.text).found
          /\ turn[p].toolCall = NoToolCall
          /\ pc[p] = "done"
          /\ turn[p].resp = HTTPResponse(StatusOK, "reply", turn[p].up.text)
          /\ call[p] = NoCall
          /\ ~Dispatched(p)

C16_Witness ==
    \E p \in Handlers :
       /\ pc[p] = "done"
       /\ turn[p].up.case.kind = "noargs"
       /\ Contains(turn[p].up.text, O("arguments"))
       /\ turn[p].resp.status = StatusOK

\* C17: the values for customerPhone and orderId are the trimmed text even
\* when all digits; the value for any other key is an integer exactly when
\* the trimmed text is a decimal integer of the int range, and the trimmed
\* text otherwise.
C17_ValueTyping ==
    \A p \in Handlers :
       (turn[p].chatCalls = 1 /\ turn[p].toolCall.found) =>
          LET c == turn[p].up.case
              args == turn[p].toolCall.Arguments
          IN /\ DOMAIN args = Keys(c.pairs)
             /\ \A k \in DOMAIN args : SameValue(args[k], ExpectedValue(LastPair(c.pairs, k)))

\* a digit-only phone number next to a digit string beyond the int range
C17_Witness ==
    \E p \in Handlers :
       /\ turn[p].chatCalls = 1
       /\ turn[p].toolCall.found
       /\ Keys(turn[p].up.case.pairs) = {"customerPhone", "productId"}
       /\ SameValue(turn[p].toolCall.Arguments["productId"], StrVal(D(MinIntDigits)))

\* the argument keys that the examples of the system prompt use for a phone
\* number and for an order identifier
PromptTextKeys == {"customerPhone", "orderNumber"}

\* C18: for every key that the system prompt's examples use for a phone
\* number or an order identifier, the extracted value is text, also when it
\* is all digits.
C18_PromptKeysStayText ==
    \A p \in Handlers :
       (turn[p].chatCalls = 1 /\ turn[p].toolCall.found) =>
          \A k \in DOMAIN turn[p].toolCall.Arguments \cap PromptTextKeys :
             SameValue(turn[p].toolCall.Arguments[k],
                       StrVal(LastPair(turn[p].up.case.pairs, k).trimmed))

\* ------------------------------------------------------------------ properties of CallTool

IsInfix(t, s) == \E i \in 0..(Len(s) - Len(t)) : SubSeq(s, i + 1, i + Len(t)) = t

\* handler p's CallTool read a decoded response line
GotResponse(p) ==
    /\ pc[p] = "done"
    /\ turn[p].toolCall.found
    /\ call[p].method = "tools/call"
    /\ call[p].err = NoErr

\* C19: when the response to tools/call carries an error object, CallTool
\* returns no result text and an error that carries the peer's code and the
\* peer's message.
C19_PeerErrorCarriesCodeAndMessage ==
    \A p \in Handlers :
       (GotResponse(p) /\ call[p].resp.error.present) =>
          LET r == CallToolResult(call[p].err, call[p].resp)
          IN /\ ~r.ok
             /\ r.text = <<>>
             /\ turn[p].exec = ExecuteResult(r)
             /\ IsInfix(call[p].resp.error.message, r.err)
             /\ IsInfix(Itoa(call[p].resp.error.code), r.err)

\* C20: when the response to tools/call carries no error object, CallTool
\* returns the text of the first content block of the result, whatever
\* blocks follow it, and the empty-result error when there is no block.
C20_FirstBlockOrEmptyResult ==
    \A p \in Handlers :
       (GotResponse(p) /\ ~call[p].resp.error.present /\ call[p].resp.result.present) =>
          LET r == CallToolResult(call[p].err, call[p].resp)
              content == call[p].resp.result.content
          IN /\ turn[p].exec = ExecuteResult(r)
             /\ IF Len(content) > 0
                THEN r = [ok |-> TRUE, text |-> content[1], err |-> NoErr]
                ELSE /\ ~r.ok
                     /\ r.text = <<>>
                     /\ r.err = Errorf("tool returned empty result", <<>>)

\* a result of two blocks was read and the first one's text was returned
C20_Witness ==
    \E p \in Handlers :
       /\ GotResponse(p)
       /\ call[p].resp.result.content = <<Block1, Block2>>
       /\ turn[p].exec.ok
       /\ turn[p].exec.text = Block1

\* ------------------------------------------------------------------ properties of Close

\* C21: Close always returns: once NewMCPClient has closed the sidecar's
\* stdin and waits for the process, it goes on, whether or not the sidecar
\* ever exits.
C21_CloseReturns == (pc[Main] = "close_wait") ~> (pc[Main] = "fatal")

\* ------------------------------------------------------------------ properties of the shared state

\* handler p's initializeCollection stores the id it found in this step
StoresCollectionID(p) == pc[p] = "rag_list" /\ pc'[p] = "rag_query"

\* C22: the collection id is resolved by a successful list-collections call
\* at most once: no initializeCollection stores an id when one is already set.
C22_CollectionResolvedOnce ==
    [][\A p \in Handlers : StoresCollectionID(p) => collectionID = ""]_vars

\* handler q is at a point of SearchKnowledge where its next step writes
\* c.collectionID (initializeCollection) or reads it (queryChroma)
AccessesCollectionID(q) == pc[q] \in {"rag_list", "rag_query"}

\* C23: the sidecar connection is the only mutable state shared between
\* concurrent requests: no handler writes a variable outside the connection
\* while another handler is about to read or write that variable.
C23_OnlyTheConnectionIsShared ==
    [][\A p, q \in Handlers :
          (p # q /\ StoresCollectionID(p)) => ~AccessesCollectionID(q)]_vars

\* ------------------------------------------------------------------ properties of cleanup and pairs

AllSpace(s) == \A i \in 1..Len(s) : IsSpace(s[i])

\* t is s without its leading and trailing whitespace
IsTrimOf(t, s) ==
    /\ t = <<>> \/ (~IsSpace(t[1]) /\ ~IsSpace(t[Len(t)]))
    /\ \E i \in 0..(Len(s) - Len(t)) :
          /\ SubSeq(s, i + 1, i + Len(t)) = t
          /\ AllSpace(SubSeq(s, 1, i))
          /\ AllSpace(SubSeq(s, i + Len(t) + 1, Len(s)))

\* C24: for a completion text without the opening marker, extraction
\* returns not found, and the cleanup (block removal, then trimming) gives
\* the text without its surrounding whitespace.
C24_NoMarkerNoDirective ==
    \A p \in Handlers :
       (turn[p].chatCalls = 1 /\ \A i \in 1..Len(turn[p].up.text) : turn[p].up.text[i] # FO) =>
          /\ ~parseToolCallFromXML(turn[p].up.text).found
          /\ turn[p].toolCall = NoToolCall
          /\ IsTrimOf(CleanResponse(turn[p].up.text), turn[p].up.text)

\* a text with a closing marker only and whitespace on both sides
C24_Witness ==
    \E p \in Handlers :
       /\ pc[p] = "done"
       /\ turn[p].up.text = <<NL, Ch("a"), FC, SP>>
       /\ turn[p].resp.status = StatusOK

\* C25: when a key occurs in several well-formed pairs of the arguments
\* block, the mapping holds the value of its last occurrence; every stored
\* text value has no leading and no trailing whitespace.
C25_LastOccurrenceWins ==
    \A p \in Handlers :
       (turn[p].chatCalls = 1 /\ turn[p].toolCall.found) =>
          LET pairs == turn[p].up.case.pairs
              args == turn[p].toolCall.Arguments
          IN \A k \in DOMAIN args :
                /\ k \in Keys(pairs)
                /\ SameValue(args[k], ExpectedValue(LastPair(pairs, k)))
                /\ args[k].t = "string" =>
                      \/ args[k].v = <<>>
                      \/ (~IsSpace(args[k].v[1]) /\ ~IsSpace(args[k].v[Len(args[k].v)]))

\* the key quantity occurs twice with different values
C25_Witness ==
    \E p \in Handlers :
       /\ turn[p].chatCalls = 1
       /\ turn[p].toolCall.found
       /\ Len(turn[p].up.case.pairs) = 2
       /\ turn[p].up.case.pairs[1].key = "quantity"
       /\ turn[p].up.case.pairs[1].val = Itoa(2)
       /\ turn[p].up.case.pairs[2].key = "quantity"
       /\ turn[p].up.case.pairs[2].val = Itoa(7)
       /\ SameValue(turn[p].toolCall.Arguments["quantity"], IntVal(Itoa(7)))

\* the arguments block of the first directive block of text s
ArgsStart(s) == Min({i \in 1..Len(s) : s[i] = O("arguments")})
ArgsEnd(s) == Min({j \in (ArgsStart(s) + 1)..Len(s) : s[j] = Cl("arguments")})

\* s holds, between its arguments markers, <k>, text, </k>
HasEqualPair(s, k) ==
    \E i, j \in (ArgsStart(s) + 1)..(ArgsEnd(s) - 1) :
       /\ i < j
       /\ s[i] = O(k)
       /\ s[j] = Cl(k)
       /\ \A m \in (i + 1)..(j - 1) : ~IsTag(s[m])

\* C26: the mapping has a key k only if the arguments block holds a pair
\* whose opening and closing names are both k; a pair of unequal names adds
\* no entry, does not make extraction fail, and the well-formed pairs around
\* it are recorded.
C26_UnequalPairsAreSkipped ==
    \A p \in Handlers :
       /\ (turn[p].chatCalls = 1 /\ turn[p].toolCall.found) =>
             \A k \in DOMAIN turn[p].toolCall.Arguments : HasEqualPair(turn[p].up.text, k)
       /\ (turn[p].chatCalls = 1 /\ turn[p].up.case.kind = "mismatch") =>
             /\ turn[p].toolCall.found
             /\ DOMAIN turn[p].toolCall.Arguments = Keys(turn[p].up.case.pairs)
             /\ \A k \in Keys(turn[p].up.case.pairs) :
                   SameValue(turn[p].toolCall.Arguments[k],
                             ExpectedValue(LastPair(turn[p].up.case.pairs, k)))

\* a pair <quantity>..</count> stands before a well-formed keyword pair
C26_Witness ==
    \E p \in Handlers :
       /\ turn[p].chatCalls = 1
       /\ turn[p].up.case.kind = "mismatch"
       /\ Contains(turn[p].up.text, Cl("count"))
       /\ DOMAIN turn[p].toolCall.Arguments = {"keyword"}
       /\ call[p].req.method = "tools/call"

C28_RolesAreKnown ==
    \A p \in Handlers :
       pc[p] = "llm" =>
          \A i \in 1..Len(turn[p].messages) :
             turn[p].messages[i].Role \in {"system", "user", "assistant"}

\* handler p's turn was unwound by a run-time fault and gin's Recovery
\* answered for it
Faulted(p) ==
    /\ pc[p] = "done"
    /\ turn[p].resp = HTTPResponse(StatusInternalServerError, "", <<>>)

\* C29: for a successful vector-store response queryChroma returns an error
\* or one snippet per document; it never faults on an index out of range, so
\* no turn ends by a fault.
C29_QueryNeverFaults == \A p \in Handlers : ~Faulted(p)

\* ------------------------------------------------------------------ properties of the lock

\* goroutine p is executing inside sendRequest, after c.mu.Lock()
InSendRequest(p) == pc[p] \in {"write", "read"}

\* C30: every return of sendRequest releases the lock: while the process
\* runs, the mutex is held exactly by the goroutine that is inside
\* sendRequest, and it is free when there is none.
C30_LockReleasedOnEveryReturn ==
    pc[Main] # "fatal" =>
       /\ \A p \in Procs : InSendRequest(p) <=> mu = p
       /\ (\A p \in Procs : ~InSendRequest(p)) => mu = NoProc

\* one handler's exchange failed and after it the other handler took the
\* lock and wrote its request
C30_Witness ==
    \E p, q \in Handlers :
       /\ p # q
       /\ pc[p] = "done"
       /\ call[p].err # NoErr
       /\ pc[q] = "read"
       /\ mu = q
       /\ Len(wire) >= 2
       /\ wire[Len(wire)] = Event("w", q, call[q].req.id)
       /\ wire[Len(wire) - 1].p = p

\* ------------------------------------------------------------------ properties of progress

\* goroutine p is inside CallTool
InCallTool(p) ==
    pc[p] \in {"nextid_load", "nextid_store", "nextid_ret", "lock", "write", "read"}

\* C31: with a sidecar that answers every request line with one line and a
\* fairly granted lock, every CallTool of every handler eventually returns.
C31_CallToolReturns ==
    \A p \in Handlers : InCallTool(p) ~> (pc[p] = "done")

\* both handlers have made a tool call and both calls have returned
C31_Witness ==
    \A p \in Handlers :
       /\ pc[p] = "done"
       /\ turn[p].toolCall.found
       /\ WritesOf(p) # {}

\* C32: a turn whose completion text yields no directive ends with its
\* reply and never takes or waits for the gateway lock, also when the
\* sidecar never answers another handler's tool call.
C32_PlainTurnNeedsNoLock ==
    /\ [](\A p \in Handlers :
            (turn[p].chatCalls = 1 /\ ~ChatFails(turn[p].up) /\ ~turn[p].toolCall.found) =>
               /\ pc[p] = "done"
               /\ turn[p].resp = HTTPResponse(StatusOK, "reply", turn[p].up.text)
               /\ mu # p
               /\ WritesOf(p) = {})
    /\ \A p \in Handlers : (pc[p] = "llm") ~> (pc[p] = "done" \/ turn[p].toolCall.found)

\* one handler has replied in plain text while the other holds the lock
\* and waits for a response that has not come
C32_Witness ==
    \E p, q \in Handlers :
       /\ pc[p] = "done"
       /\ turn[p].resp = HTTPResponse(StatusOK, "reply", TextPlain)
       /\ pc[q] = "read"
       /\ mu = q
       /\ stdoutQ = <<>>
       /\ wire[Len(wire)] = Event("w", q, call[q].req.id)

\* C33: after a successful startup, when main stops the gateway has been
\* torn down: the sidecar's inbound stream is closed.
C33_TornDownBeforeExit ==
    (pc[Main] = "fatal" /\ globalMCPClient) => ~stdinOpen

\* ------------------------------------------------------------------ properties of chatWithToolCalling

\* the tool-result messages of a message list
ToolMessages(ms) == {k \in 1..Len(ms) : ms[k].Role = "tool"}

\* what the loop must return after the completion responses rs
LoopReturns(rs, ret) ==
    LET n == Len(rs)
    IN  /\ n >= 1
        /\ \A k \in 1..(n - 1) : rs[k].err = NoErr /\ ShouldCallTool(rs[k])
        /\ IF rs[n].err # NoErr
           THEN ret = [text |-> <<>>, err |-> rs[n].err]
           ELSE IF ~ShouldCallTool(rs[n])
           THEN ret = [text |-> GetTextResponse(rs[n]), err |-> NoErr]
           ELSE n = 5 /\ ret = [text |-> FallbackMessage, err |-> NoErr]

\* C34: chatWithToolCalling makes at most 5 completion calls and then has
\* returned: the text of the first response that requests no tool call, the
\* error of the first failing completion call, or the fallback when all 5
\* responses request a tool call; a failing tool execution leaves the loop
\* running and is appended as a tool-result message.
C34_LoopTerminates ==
    /\ [](/\ loop.calls <= 5
          /\ loop.calls = Len(loop.responses)
          /\ loop.pc = "returned" => LoopReturns(loop.responses, loop.ret))
    /\ [][(loop.pc = "tools" /\ loop'.toolCalls # loop.toolCalls /\ loop'.outcome.err # NoErr) =>
             /\ loop'.pc = "tools"
             /\ loop'.currentMessages =
                   Append(loop.currentMessages,
                          Message("tool", <<Ch("tool execution failed: ")>> \o loop'.outcome.err))]_vars
    /\ (loop.pc # "idle") ~> (loop.pc = "returned")

\* the fallback was returned after 5 rounds in which tool executions failed
C34_Witness ==
    /\ loop.pc = "returned"
    /\ loop.calls = 5
    /\ loop.ret = [text |-> FallbackMessage, err |-> NoErr]
    /\ \E k \in ToolMessages(loop.currentMessages) :
          loop.currentMessages[k].Content = <<Ch("tool execution failed: ")>> \o ToolFailure

\* ------------------------------------------------------------------ properties of the shop

RECURSIVE SumQuantity(_, _)
\* the total quantity of the rows of os at the positions ks
SumQuantity(os, ks) ==
    IF ks = {} THEN 0
    ELSE LET k == CHOOSE k \in ks : TRUE
         IN  os[k].quantity + SumQuantity(os, ks \ {k})

\* the orders createOrder saved for product id that are not cancelled
LiveOrders(id) ==
    {k \in 1..Len(orders) :
        /\ orders[k].byCreateOrder
        /\ orders[k].product = id
        /\ orders[k].status # "CANCELLED"}

\* C36: for every product, the stock plus the quantities of the orders that
\* createOrder saved for it and that are not cancelled is the initial stock.
C36_StockConserved ==
    \A id \in ProductIds : stock[id] + SumQuantity(orders, LiveOrders(id)) = InitialStock[id]

\* the step is a run of the service operation called name
Ran(name) == ops' = ops + 1 /\ last'.name = name

\* C37: no product's stock is ever negative, and a createOrder that asks for
\* more than the stock fails with an error and changes neither the stock nor
\* the orders.
C37_StockNeverNegative ==
    /\ [](\A id \in ProductIds : stock[id] >= 0)
    /\ [][(/\ Ran("createOrder")
           /\ last'.productId \in ProductIds
           /\ last'.quantity > stock[last'.productId]) =>
             /\ ~last'.ok
             /\ last'.err # ""
             /\ stock' = stock
             /\ orders' = orders]_vars

\* a createOrder for more than the stock has just failed
C37_Witness ==
    /\ last.name = "createOrder"
    /\ last.productId \in ProductIds
    /\ last.quantity > stock[last.productId]
    /\ last.quantity < MaxInt
    /\ ~last.ok
    /\ last.err = InsufficientStock

\* C38: cancelOrder succeeds only on a PENDING or CONFIRMED order, which it
\* sets to CANCELLED while adding its quantity to the product's stock; for an
\* unknown number or a SHIPPED, DELIVERED or CANCELLED order it fails with an
\* error and changes no order and no stock.
C38_CancelOnlyOpenOrders ==
    [][Ran("cancelOrder") =>
         LET found == findByOrderNumber(orders, last'.orderNumber)
         IN  /\ last'.ok =>
                  /\ found # {}
                  /\ \A k \in found :
                        /\ orders[k].status \in {"PENDING", "CONFIRMED"}
                        /\ orders' = [orders EXCEPT ![k].status = "CANCELLED"]
                        /\ stock' = [stock EXCEPT ![orders[k].product] = @ + orders[k].quantity]
             /\ (\/ found = {}
                 \/ \E k \in found : orders[k].status \in {"SHIPPED", "DELIVERED", "CANCELLED"}) =>
                  /\ ~last'.ok
                  /\ last'.err # ""
                  /\ orders' = orders
                  /\ stock' = stock]_vars

\* an order saved by createOrder was cancelled and cancelling it again has
\* just failed
C38_Witness ==
    /\ last.name = "cancelOrder"
    /\ ~last.ok
    /\ \E k \in 1..Len(orders) :
          /\ orders[k].orderNumber = last.orderNumber
          /\ orders[k].byCreateOrder
          /\ orders[k].status = "CANCELLED"
          /\ stock[orders[k].product] = InitialStock[orders[k].product]

\* C39: every order saved by createOrder has a quantity of at least 1, and
\* a successful createOrder lowers the ordered product's stock by the
\* quantity and raises no stock.
C39_QuantityPositive ==
    /\ [](\A k \in 1..Len(orders) : orders[k].byCreateOrder => orders[k].quantity >= 1)
    /\ [][(Ran("createOrder") /\ last'.ok) =>
             /\ stock' = [stock EXCEPT ![last'.productId] = @ - last'.quantity]
             /\ \A id \in ProductIds : stock'[id] <= stock[id]]_vars

\* ------------------------------------------------------------------ properties of the argument round trip

\* C35: the arguments of the tools/call request are the mapping the
\* extractor produced: the same keys, every text value unchanged and every
\* integer value exact.
C35_ArgumentsPreserved ==
    \A p \in Handlers :
       Dispatched(p) =>
          LET sent == call[p].req.arguments
              args == turn[p].toolCall.Arguments
          IN /\ DOMAIN sent = DOMAIN args
             /\ \A k \in DOMAIN args :
                   /\ args[k].t = "string" => sent[k] = [t |-> "str", v |-> args[k].v]
                   /\ args[k].t = "int" => sent[k] = [t |-> "num", v |-> args[k].v]

====
